---- MODULE Spec2Model ----
(***************************************************************************)
(* Tool-orchestration loop and viewer-state codec of neuroglancer-chat.    *)
(*                                                                         *)
(*   SpecChat    the buffered loop            (main.py, chat)              *)
(*   SpecStream  the streamed loop            (main.py, agent_chat_stream  *)
(*                                             adapters/llm.py,            *)
(*                                             run_chat_stream)            *)
(*   SpecLoops   a request served by either loop                           *)
(*   SpecCodec   to_url / from_url            (tools/neuroglancer_state.py)*)
(*   SpecEquiv   one model script served by the buffered loop and then by  *)
(*               the streamed loop                                         *)
(*   SpecDisconnect  the streamed loop with a caller that may leave        *)
(*   SpecMutators    the NeuroglancerState mutators                        *)
(*                                            (tools/neuroglancer_state.py)*)
(***************************************************************************)
EXTENDS Integers, Sequences, FiniteSets, TLC

VARIABLES
    pc,               \* position of the request handler
    iteration,        \* loop variable of "for iteration in range(max_iters)"
    conversation,     \* the message list handed to the model
    tool_results,     \* contents of the tool messages appended since the
                      \* latest model call, by call id
    tool_calls,       \* tool calls of the model response being processed
    tc_idx,           \* position of "for tc in tool_calls" (1-based)
    overall_mutated,
    mutating_dispatched, \* some dispatched call named a tool of MUTATING_TOOLS
    CURRENT_STATE,    \* the process-wide viewer state
    llm_calls,        \* number of run_chat / run_chat_stream calls made
    requested_log,    \* ids of the tool calls the loop was asked for, in order
    dispatch_log,     \* ids of the tool calls the loop has dispatched, in order
    last_dispatch,    \* outcome of the dispatch made by the latest step
    multi_turns,      \* model responses so far that carried several calls
    response,         \* payload returned by chat / final event of the stream
    llm_plan,         \* streamed model: the tool calls it is sending
    accumulated_tool_calls, \* run_chat_stream: tool calls assembled so far
    n_content,        \* run_chat_stream: content deltas of this response
    total_content,    \* agent_chat_stream: "" or text received so far
    stream_done,      \* agent_chat_stream: accumulated_message is set
    events,           \* events emitted since the latest "iteration" event
    cs,               \* the subject of a run: the state handed to to_url,
                      \* the model script, the connection, the viewer state
    cu                \* what has been computed from or done to cs so far

chatVars == <<pc, iteration, conversation, tool_results, tool_calls, tc_idx,
              overall_mutated, mutating_dispatched, CURRENT_STATE, llm_calls,
              requested_log, dispatch_log, last_dispatch, multi_turns, response>>

streamVars == <<llm_plan, accumulated_tool_calls, n_content, total_content,
                stream_done, events>>

codecVars == <<cs, cu>>

vars == <<chatVars, streamVars, codecVars>>

-----------------------------------------------------------------------------
(* Bounds of the model                                                     *)

MaxCalls == 2            \* tool calls in one model response
MaxMultiCallTurns == 1   \* responses of one request carrying several calls
MaxContent == 1          \* content deltas of one streamed response

(* Program constants                                                       *)

max_iters == 6
max_iters_stream == 10

MUTATING_TOOLS ==
    {"ng_set_view", "ng_set_lut", "ng_annotations_add", "ng_add_layer",
     "ng_set_layer_visibility", "ng_set_viewer_settings", "state_load",
     "data_ingest_csv_rois", "data_ng_views_table",
     "data_ng_annotations_from_data"}

is_mutating_tool(name) == name \in MUTATING_TOOLS

-----------------------------------------------------------------------------
(* JSON argument texts, as token sequences.  A member token stands for one *)
(* "key": value pair of an object, "1" for a number.                       *)

MemberTokens == {"center", "link_obj", "link_5", "link_bad", "file_id"}

RECURSIVE AllIn(_, _)
AllIn(s, S) == IF s = <<>> THEN TRUE ELSE Head(s) \in S /\ AllIn(Tail(s), S)

Middle(s) == SubSeq(s, 2, Len(s) - 1)

ToSet(s) == {s[i] : i \in 1..Len(s)}

NoValue == [t |-> "none", members |-> {}, n |-> 0]

\* json.loads on the token text of a tool call's arguments: an object, an
\* array of numbers, or a number; anything else raises.
json_loads_tokens(text) ==
    IF Len(text) >= 2 /\ Head(text) = "{" /\ text[Len(text)] = "}"
          /\ AllIn(Middle(text), MemberTokens)
    THEN [ok |-> TRUE,
          val |-> [t |-> "obj", members |-> ToSet(Middle(text)), n |-> Len(text) - 2]]
    ELSE IF Len(text) >= 2 /\ Head(text) = "[" /\ text[Len(text)] = "]"
          /\ AllIn(Middle(text), {"1"})
    THEN [ok |-> TRUE,
          val |-> [t |-> "arr", members |-> {}, n |-> Len(text) - 2]]
    ELSE IF text = <<"1">>
    THEN [ok |-> TRUE, val |-> [t |-> "num", members |-> {}, n |-> 1]]
    ELSE [ok |-> FALSE, val |-> NoValue]

EmptyObject == [t |-> "obj", members |-> {}, n |-> 0]

\* Python truthiness of a parsed JSON value
Truthy(v) == v.n > 0

-----------------------------------------------------------------------------
(* Viewer state, as far as the tool handlers below read and write it       *)

DefaultState == [is_dict |-> TRUE, position |-> <<0, 0, 0>>]
LoadedState == [is_dict |-> TRUE, position |-> <<7, 7, 7>>]
NonDictState == [is_dict |-> FALSE, position |-> <<>>]

\* NeuroglancerState.to_url: raises unless the wrapped data is a dict
to_url_raises(st) == ~st.is_dict

OkResult == [ok |-> "true", error |-> "none"]
ErrResult(tag) == [ok |-> "absent", error |-> tag]
OkFalseResult(tag) == [ok |-> "false", error |-> tag]

Returned(res, st) == [raised |-> FALSE, entered |-> TRUE, result |-> res, state |-> st]
Raised(st, ent) == [raised |-> TRUE, entered |-> ent, result |-> ErrResult("none"), state |-> st]

\* Model(**args): TypeError unless args is a mapping, ValidationError when a
\* required field is missing
Validates(args, required) == args.t = "obj" /\ required \subseteq args.members

t_set_view(args, st) ==
    IF ~st.is_dict THEN Raised(st, TRUE)
    ELSE Returned(OkResult, [st EXCEPT !.position = <<1, 2, 3>>])

t_state_load(args, st) ==
    IF "link_bad" \in args.members THEN Returned(OkFalseResult("reported"), st)
    ELSE IF "link_5" \in args.members THEN Returned(OkResult, NonDictState)
    ELSE Returned(OkResult, LoadedState)

t_state_link(st) ==
    IF to_url_raises(st) THEN Raised(st, TRUE) ELSE Returned(OkResult, st)

t_data_info(args, st) == Returned(OkResult, st)

StateLoadLinks == {"link_obj", "link_5", "link_bad"}

\* The if-chain of _execute_tool_by_name, without its try/except
Handlers(name, args, st) ==
    IF name = "ng_set_view"
    THEN IF Validates(args, {"center"}) THEN t_set_view(args, st) ELSE Raised(st, FALSE)
    ELSE IF name = "state_load"
    THEN IF args.t = "obj" /\ args.members \cap StateLoadLinks # {}
         THEN t_state_load(args, st) ELSE Raised(st, FALSE)
    ELSE IF name = "ng_state_link" THEN t_state_link(st)
    ELSE IF name = "data_info"
    THEN IF Validates(args, {"file_id"}) THEN t_data_info(args, st) ELSE Raised(st, FALSE)
    ELSE [raised |-> FALSE, entered |-> FALSE, result |-> ErrResult("unknown_tool"), state |-> st]

\* the dispatcher if it had no try/except
ExecuteNoCatch(name, args, st) == Handlers(name, args, st)

_execute_tool_by_name(name, args, st) ==
    LET h == Handlers(name, args, st)
    IN  IF h.raised
        THEN [raised |-> FALSE, entered |-> h.entered,
              result |-> ErrResult("exception"), state |-> h.state]
        ELSE h

-----------------------------------------------------------------------------
(* Conversation messages and the mock model                                *)

\* role, the call id of a tool message, the kind of content ("text", "" for
\* None or empty, "result" for a tool message) and whether the message
\* carries tool calls
Msg(role, id, content, tc) ==
    [role |-> role, tool_call_id |-> id, content |-> content, has_tool_calls |-> tc]

\* base_messages + req.messages: three system messages, then the history
\* supplied by the caller, which ends with the user's prompt
ReqMessages ==
    { <<Msg("user", 0, "text", FALSE)>>,
      <<Msg("user", 0, "text", FALSE),
        Msg("assistant", 0, "text", FALSE),
        Msg("user", 0, "text", FALSE)>> }

BaseMessages ==
    <<Msg("system", 0, "text", FALSE), Msg("system", 0, "text", FALSE),
      Msg("system", 0, "text", FALSE)>>

\* The tool calls a model response may carry: a tool name and the text of
\* its arguments
MockRequests ==
    { [name |-> "ng_set_view",            arguments |-> <<"{", "center", "}">>],
      [name |-> "ng_set_view",            arguments |-> <<"[", "1", "]">>],
      [name |-> "ng_set_view",            arguments |-> <<"{", "center">>],
      [name |-> "state_load",             arguments |-> <<"{", "link_5", "}">>],
      [name |-> "data_info",              arguments |-> <<"{", "file_id", "}">>],
      [name |-> "ng_state_link",          arguments |-> <<>>],
      [name |-> "ng_set_viewer_settings", arguments |-> <<"{", "}">>] }

\* The requests a response with several calls is made of: one that succeeds
\* and one whose argument text does not parse
MultiCallRequests ==
    { [name |-> "ng_set_view", arguments |-> <<"{", "center", "}">>],
      [name |-> "ng_set_view", arguments |-> <<"{", "center">>] }

CallLists ==
    { <<r>> : r \in MockRequests }
        \cup UNION { [1..n -> MultiCallRequests] : n \in 2..MaxCalls }

\* ids the model gives to the calls of its response in iteration k
CallId(k, j) == 10 * k + j

WithIds(calls, k) ==
    [j \in 1..Len(calls) |->
        [id |-> CallId(k, j), name |-> calls[j].name, arguments |-> calls[j].arguments]]

Ids(calls) == [j \in 1..Len(calls) |-> calls[j].id]

Contents == {"text", ""}

LastRole(conv) == IF conv = <<>> THEN "none" ELSE conv[Len(conv)].role

\* id and name of the call, what happened inside the dispatcher ("none",
\* "unknown" tool, "validation" failure, "handler" exception), whether an
\* exception left the dispatcher, whether the handler body was entered,
\* whether the argument text was valid JSON and all of what the model meant
\* to send, the result, and whether the request was aborted
NoDispatch ==
    [id |-> 0, name |-> "", failure |-> "none", raised |-> FALSE, entered |-> FALSE,
     parsable |-> FALSE, complete |-> FALSE, result |-> ErrResult("none"),
     aborted |-> FALSE]

Failure(h) ==
    IF h.raised THEN (IF h.entered THEN "handler" ELSE "validation")
    ELSE IF h.result.error = "unknown_tool" THEN "unknown"
    ELSE "none"

NoResponse == [sent |-> FALSE, mutated |-> FALSE, state_link |-> "none", content |-> ""]

StreamIdle ==
    /\ llm_plan = <<>>
    /\ accumulated_tool_calls = <<>>
    /\ n_content = 0
    /\ total_content = ""
    /\ stream_done = FALSE
    /\ events = <<>>

CodecIdle ==
    /\ cs = <<>>
    /\ cu = <<>>

RequestStart ==
    /\ iteration = 0
    /\ tool_results = <<>>
    /\ tool_calls = <<>>
    /\ tc_idx = 0
    /\ overall_mutated = FALSE
    /\ mutating_dispatched = FALSE
    /\ CURRENT_STATE = DefaultState
    /\ llm_calls = 0
    /\ requested_log = <<>>
    /\ dispatch_log = <<>>
    /\ last_dispatch = NoDispatch
    /\ multi_turns = 0
    /\ response = NoResponse

-----------------------------------------------------------------------------
(* The buffered loop: chat                                                 *)

InitChat ==
    /\ pc = "llm"
    /\ \E req \in ReqMessages : conversation = BaseMessages \o req
    /\ RequestStart
    /\ StreamIdle
    /\ CodecIdle

\* run_chat returns no choices: break
ChatNoChoices ==
    /\ pc = "llm"
    /\ llm_calls' = llm_calls + 1
    /\ last_dispatch' = NoDispatch
    /\ tool_results' = <<>>
    /\ pc' = "after_loop"
    /\ UNCHANGED <<iteration, conversation, tool_calls, tc_idx, overall_mutated,
                   mutating_dispatched, CURRENT_STATE, requested_log, dispatch_log,
                   multi_turns, response>>
    /\ UNCHANGED <<streamVars, codecVars>>

\* run_chat returns a message without tool calls: mask, append, break
ChatFinalAnswer ==
    /\ pc = "llm"
    /\ llm_calls' = llm_calls + 1
    /\ last_dispatch' = NoDispatch
    /\ tool_results' = <<>>
    /\ \E content \in Contents :
          conversation' = Append(conversation, Msg("assistant", 0, content, FALSE))
    /\ pc' = "after_loop"
    /\ UNCHANGED <<iteration, tool_calls, tc_idx, overall_mutated,
                   mutating_dispatched, CURRENT_STATE,
                   requested_log, dispatch_log, multi_turns, response>>
    /\ UNCHANGED <<streamVars, codecVars>>

\* run_chat returns a message with tool calls: empty content is replaced by
\* the synthesized "Applied tools: ..." text, the message is appended and the
\* for loop over the calls starts
ChatToolCalls ==
    /\ pc = "llm"
    /\ llm_calls' = llm_calls + 1
    /\ last_dispatch' = NoDispatch
    /\ tool_results' = <<>>
    /\ \E calls \in CallLists :
          /\ Len(calls) > 1 => multi_turns < MaxMultiCallTurns
          /\ multi_turns' = IF Len(calls) > 1 THEN multi_turns + 1 ELSE multi_turns
          /\ tool_calls' = WithIds(calls, iteration)
          /\ requested_log' = requested_log \o Ids(WithIds(calls, iteration))
    /\ conversation' = Append(conversation, Msg("assistant", 0, "text", TRUE))
    /\ tc_idx' = 1
    /\ pc' = "tools"
    /\ UNCHANGED <<iteration, overall_mutated, mutating_dispatched, CURRENT_STATE,
                   dispatch_log, response>>
    /\ UNCHANGED <<streamVars, codecVars>>

\* what the buffered loop hands to the dispatcher: "arguments or '{}'",
\* json.loads, and {} when that raises
ChatArgs(tc) ==
    LET raw_args == IF tc.arguments = <<>> THEN <<"{", "}">> ELSE tc.arguments
        parsed == json_loads_tokens(raw_args)
    IN  IF parsed.ok THEN parsed.val ELSE EmptyObject

\* the comprehension over (args or {}).items() that builds the entry of
\* tool_execution_records raises when args is a non-empty non-mapping
RecordArgsRaises(args) == args.t # "obj" /\ Truthy(args)

\* a tool message that does not carry the id of its call
ToolMsgNoId(tc) == Msg("tool", 0, "result", FALSE)

\* the tool-role message appended for a call
ToolMsg(tc) == Msg("tool", tc.id, "result", FALSE)

IsError(result) == result.error # "none"

ToolResult(tc, result) == [id |-> tc.id, error |-> IsError(result)]

\* a loop that does not count its iterations
AfterLastToolSameIteration(it) == [pc |-> "llm", iteration |-> it]

\* "for iteration in range(max_iters)": after the last tool call of an
\* iteration the next iteration starts, or the loop is exhausted
AfterLastTool(it) ==
    IF it < max_iters - 1
    THEN [pc |-> "llm", iteration |-> it + 1]
    ELSE [pc |-> "after_loop", iteration |-> it]

\* one pass of "for tc in tool_calls"
ChatDispatchTool ==
    /\ pc = "tools"
    /\ tc_idx \in 1..Len(tool_calls)
    /\ LET tc == tool_calls[tc_idx]
           args == ChatArgs(tc)
           d == _execute_tool_by_name(tc.name, args, CURRENT_STATE)
           aborts == d.raised \/ RecordArgsRaises(args)
       IN  /\ dispatch_log' = Append(dispatch_log, tc.id)
           /\ CURRENT_STATE' = d.state
           /\ last_dispatch' = [id |-> tc.id, name |-> tc.name,
                                failure |-> Failure(Handlers(tc.name, args, CURRENT_STATE)),
                                raised |-> d.raised, entered |-> d.entered,
                                parsable |-> json_loads_tokens(tc.arguments).ok,
                                complete |-> TRUE,
                                result |-> d.result, aborted |-> aborts]
           /\ overall_mutated' = IF d.raised THEN overall_mutated
                                 ELSE (overall_mutated \/ is_mutating_tool(tc.name))
           /\ mutating_dispatched' = (mutating_dispatched \/ tc.name \in MUTATING_TOOLS)
           /\ IF aborts
              THEN /\ pc' = "crashed"
                   /\ UNCHANGED <<conversation, tool_results, tc_idx, iteration>>
              ELSE /\ conversation' = Append(conversation, ToolMsg(tc))
                   /\ tool_results' = Append(tool_results, ToolResult(tc, d.result))
                   /\ IF tc_idx < Len(tool_calls)
                      THEN /\ tc_idx' = tc_idx + 1
                           /\ UNCHANGED <<pc, iteration>>
                      ELSE /\ tc_idx' = 0
                           /\ pc' = AfterLastTool(iteration).pc
                           /\ iteration' = AfterLastTool(iteration).iteration
    /\ UNCHANGED <<tool_calls, llm_calls, requested_log, multi_turns, response>>
    /\ UNCHANGED <<streamVars, codecVars>>

\* the extra call made whenever the last message is a tool result
NeedsFinalCallAnyIteration == LastRole(conversation) = "tool"

\* "if iteration == max_iters - 1" and the last message is a tool result
NeedsFinalCall ==
    iteration = max_iters - 1 /\ LastRole(conversation) = "tool"

\* the forced summarization: one more run_chat; its message, if any, is
\* appended as it is (tool calls included) and nothing is dispatched
ChatFinalCall ==
    /\ pc = "after_loop"
    /\ NeedsFinalCall
    /\ llm_calls' = llm_calls + 1
    /\ last_dispatch' = NoDispatch
    /\ tool_results' = <<>>
    /\ \/ UNCHANGED conversation
       \/ \E content \in Contents, tc \in BOOLEAN :
             conversation' = Append(conversation, Msg("assistant", 0, content, tc))
    /\ pc' = "respond"
    /\ UNCHANGED <<iteration, tool_calls, tc_idx, overall_mutated,
                   mutating_dispatched, CURRENT_STATE,
                   requested_log, dispatch_log, multi_turns, response>>
    /\ UNCHANGED <<streamVars, codecVars>>

ChatSkipFinalCall ==
    /\ pc = "after_loop"
    /\ ~NeedsFinalCall
    /\ pc' = "respond"
    /\ UNCHANGED <<iteration, conversation, tool_results, tool_calls, tc_idx,
                   overall_mutated, mutating_dispatched, CURRENT_STATE, llm_calls, requested_log,
                   dispatch_log, last_dispatch, multi_turns, response>>
    /\ UNCHANGED <<streamVars, codecVars>>

RECURSIVE LastAssistantContent(_)
\* final_assistant: the latest assistant message of the conversation, or the
\* "(no response)" placeholder
LastAssistantContent(conv) ==
    IF conv = <<>> THEN "(no response)"
    ELSE IF conv[Len(conv)].role = "assistant" THEN conv[Len(conv)].content
    ELSE LastAssistantContent(SubSeq(conv, 1, Len(conv) - 1))

\* state_link_block: to_url of the current state when mutated, None when
\* not mutated or when to_url raises
StateLinkBlock(mutated, st) ==
    IF mutated /\ ~to_url_raises(st) THEN "link" ELSE "none"

\* response assembly
ChatRespond ==
    /\ pc = "respond"
    /\ response' = [sent |-> TRUE, mutated |-> overall_mutated,
                    state_link |-> StateLinkBlock(overall_mutated, CURRENT_STATE),
                    content |-> LastAssistantContent(conversation)]
    /\ pc' = "done"
    /\ UNCHANGED <<iteration, conversation, tool_results, tool_calls, tc_idx,
                   overall_mutated, mutating_dispatched, CURRENT_STATE, llm_calls, requested_log,
                   dispatch_log, last_dispatch, multi_turns>>
    /\ UNCHANGED <<streamVars, codecVars>>

NextChat ==
    \/ ChatNoChoices
    \/ ChatFinalAnswer
    \/ ChatToolCalls
    \/ ChatDispatchTool
    \/ ChatFinalCall
    \/ ChatSkipFinalCall
    \/ ChatRespond

SpecChat == InitChat /\ [][NextChat]_vars

-----------------------------------------------------------------------------
(* The streamed loop: agent_chat_stream over run_chat_stream               *)

\* the streamed loop starts from the system prompt, the state summary and
\* req.messages
BaseMessagesStream ==
    <<Msg("system", 0, "text", FALSE), Msg("system", 0, "text", FALSE)>>

InitStream ==
    /\ pc = "s_iter"
    /\ conversation = BaseMessagesStream \o <<Msg("user", 0, "text", FALSE)>>
    /\ RequestStart
    /\ StreamIdle
    /\ CodecIdle

Emit(evs) == events' = events \o evs

\* top of "for iteration in range(max_iters)": the iteration event, then the
\* model call is started; llm_plan is the response the model will send
StreamStartIteration ==
    /\ pc = "s_iter"
    /\ events' = <<"iteration">>
    /\ llm_calls' = llm_calls + 1
    /\ \/ llm_plan' = <<>> /\ UNCHANGED multi_turns
       \/ \E calls \in CallLists :
             /\ Len(calls) > 1 => multi_turns < MaxMultiCallTurns
             /\ multi_turns' = IF Len(calls) > 1 THEN multi_turns + 1 ELSE multi_turns
             /\ llm_plan' = WithIds(calls, iteration)
    /\ accumulated_tool_calls' = <<>>
    /\ n_content' = 0
    /\ stream_done' = FALSE
    /\ tool_calls' = <<>>
    /\ tc_idx' = 0
    /\ tool_results' = <<>>
    /\ last_dispatch' = NoDispatch
    /\ pc' = "s_llm"
    /\ UNCHANGED <<iteration, conversation, overall_mutated, mutating_dispatched,
                   CURRENT_STATE,
                   requested_log, dispatch_log, response, total_content>>
    /\ UNCHANGED codecVars

\* a chunk with delta.content
StreamContent ==
    /\ pc = "s_llm"
    /\ n_content < MaxContent
    /\ n_content' = n_content + 1
    /\ total_content' = "text"
    /\ Emit(<<"content">>)
    /\ UNCHANGED <<chatVars, llm_plan, accumulated_tool_calls, stream_done>>
    /\ UNCHANGED codecVars

\* a chunk with delta.tool_calls: the first delta of a call opens its slot
\* with the id and the name, every delta appends its argument fragment.  The
\* model sends its calls one after the other: a delta extends the latest
\* call or, once that one is complete, opens the next
StreamToolDelta ==
    /\ pc = "s_llm"
    /\ LET n == Len(accumulated_tool_calls) IN
       \/ /\ n < Len(llm_plan)
          /\ n > 0 => accumulated_tool_calls[n].arguments = llm_plan[n].arguments
          /\ \E k \in 0..Len(llm_plan[n + 1].arguments) :
               accumulated_tool_calls' =
                   Append(accumulated_tool_calls,
                          [id |-> llm_plan[n + 1].id, name |-> llm_plan[n + 1].name,
                           arguments |-> SubSeq(llm_plan[n + 1].arguments, 1, k)])
       \/ /\ n > 0
          /\ LET have == Len(accumulated_tool_calls[n].arguments) IN
             \E k \in (have + 1)..Len(llm_plan[n].arguments) :
               accumulated_tool_calls' =
                   [accumulated_tool_calls EXCEPT
                       ![n].arguments = SubSeq(llm_plan[n].arguments, 1, k)]
    /\ UNCHANGED <<chatVars, llm_plan, n_content, total_content, stream_done, events>>
    /\ UNCHANGED codecVars

\* the chunk with a finish_reason: run_chat_stream yields tool_calls when it
\* has accumulated any, then done, and stops (its locals are gone);
\* agent_chat_stream leaves the loop when there are no tool calls, else appends
\* the assistant message.  Each call handed over is marked with whether its
\* argument text is all of what the model was sending
StreamFinish ==
    /\ pc = "s_llm"
    /\ stream_done' = TRUE
    /\ tool_calls' = [j \in 1..Len(accumulated_tool_calls) |->
                        [id |-> accumulated_tool_calls[j].id,
                         name |-> accumulated_tool_calls[j].name,
                         arguments |-> accumulated_tool_calls[j].arguments,
                         complete |-> accumulated_tool_calls[j].arguments
                                          = llm_plan[j].arguments]]
    /\ llm_plan' = <<>>
    /\ accumulated_tool_calls' = <<>>
    /\ n_content' = 0
    /\ IF accumulated_tool_calls = <<>>
       THEN /\ Emit(<<"llm_done">>)
            /\ pc' = "s_final"
            /\ UNCHANGED <<conversation, requested_log, tc_idx>>
       ELSE /\ Emit(<<"tool_calls", "llm_done">>)
            /\ conversation' = Append(conversation, Msg("assistant", 0, "text", TRUE))
            /\ requested_log' = requested_log \o Ids(accumulated_tool_calls)
            /\ tc_idx' = 1
            /\ pc' = "s_tool_start"
    /\ UNCHANGED <<iteration, tool_results, overall_mutated, mutating_dispatched,
                   CURRENT_STATE, llm_calls,
                   dispatch_log, last_dispatch, multi_turns, response>>
    /\ UNCHANGED total_content
    /\ UNCHANGED codecVars

\* the chunk iterator is exhausted without a finish_reason: nothing is
\* yielded, tool_calls is still None and the loop is left
StreamEnds ==
    /\ pc = "s_llm"
    /\ pc' = "s_final"
    /\ llm_plan' = <<>>
    /\ accumulated_tool_calls' = <<>>
    /\ n_content' = 0
    /\ UNCHANGED <<iteration, conversation, tool_results, tool_calls, tc_idx,
                   overall_mutated, mutating_dispatched, CURRENT_STATE, llm_calls,
                   requested_log, dispatch_log, last_dispatch, multi_turns, response>>
    /\ UNCHANGED <<total_content, stream_done, events>>
    /\ UNCHANGED codecVars

\* the model call raises: the generator's "except Exception" emits error
StreamLLMRaises ==
    /\ pc = "s_llm"
    /\ Emit(<<"error">>)
    /\ pc' = "s_done"
    /\ llm_plan' = <<>>
    /\ accumulated_tool_calls' = <<>>
    /\ n_content' = 0
    /\ UNCHANGED <<iteration, conversation, tool_results, tool_calls, tc_idx,
                   overall_mutated, mutating_dispatched, CURRENT_STATE, llm_calls,
                   requested_log, dispatch_log, last_dispatch, multi_turns, response>>
    /\ UNCHANGED <<total_content, stream_done>>
    /\ UNCHANGED codecVars

\* top of "for tc in tool_calls": the tool_start event
StreamToolStart ==
    /\ pc = "s_tool_start"
    /\ Emit(<<"tool_start">>)
    /\ pc' = "s_tool_run"
    /\ UNCHANGED <<iteration, conversation, tool_results, tool_calls, tc_idx,
                   overall_mutated, mutating_dispatched, CURRENT_STATE, llm_calls, requested_log,
                   dispatch_log, last_dispatch, multi_turns, response>>
    /\ UNCHANGED <<llm_plan, accumulated_tool_calls, n_content, total_content,
                   stream_done>>
    /\ UNCHANGED codecVars

\* a parse that falls back to {} as the buffered loop does
StreamParseLenient(text) ==
    IF json_loads_tokens(text).ok THEN json_loads_tokens(text)
    ELSE [ok |-> TRUE, val |-> EmptyObject]

\* args = json.loads(args_str) inside the try of the tool loop: the
\* accumulated text as it is, no fallback
StreamParse(text) == json_loads_tokens(text)

\* tool_done emitted before the exception is noticed
ToolOutcomeEventsBoth(raised) ==
    IF raised THEN <<"tool_done", "tool_error">> ELSE <<"tool_done">>

\* tool_done at the end of the try block, tool_error in its except block
ToolOutcomeEvents(raised) == IF raised THEN <<"tool_error">> ELSE <<"tool_done">>

AfterLastToolStream(it) ==
    IF it < max_iters_stream - 1
    THEN [pc |-> "s_iter", iteration |-> it + 1]
    ELSE [pc |-> "s_final", iteration |-> it]

\* body of "for tc in tool_calls" after the tool_start event: parse, execute,
\* emit tool_done and append the result; on any exception emit tool_error
\* and append the error
StreamToolRun ==
    /\ pc = "s_tool_run"
    /\ tc_idx \in 1..Len(tool_calls)
    /\ LET tc == tool_calls[tc_idx]
           parsed == StreamParse(tc.arguments)
           d == IF parsed.ok
                THEN _execute_tool_by_name(tc.name, parsed.val, CURRENT_STATE)
                ELSE [raised |-> TRUE, entered |-> FALSE,
                      result |-> ErrResult("exception"), state |-> CURRENT_STATE]
           result == IF d.raised THEN ErrResult("exception") ELSE d.result
       IN  /\ dispatch_log' = Append(dispatch_log, tc.id)
           /\ CURRENT_STATE' = d.state
           /\ last_dispatch' = [id |-> tc.id, name |-> tc.name,
                                failure |-> IF parsed.ok
                                            THEN Failure(Handlers(tc.name, parsed.val,
                                                                  CURRENT_STATE))
                                            ELSE "none",
                                raised |-> parsed.ok /\ d.raised,
                                entered |-> d.entered,
                                parsable |-> json_loads_tokens(tc.arguments).ok,
                                complete |-> tc.complete,
                                result |-> result, aborted |-> FALSE]
           /\ overall_mutated' = IF d.raised THEN overall_mutated
                                 ELSE (overall_mutated \/ is_mutating_tool(tc.name))
           /\ mutating_dispatched' =
                  (mutating_dispatched \/ (parsed.ok /\ tc.name \in MUTATING_TOOLS))
           /\ Emit(ToolOutcomeEvents(d.raised))
           /\ conversation' = Append(conversation, ToolMsg(tc))
           /\ tool_results' = Append(tool_results, ToolResult(tc, result))
           /\ IF tc_idx < Len(tool_calls)
              THEN /\ tc_idx' = tc_idx + 1
                   /\ pc' = "s_tool_start"
                   /\ UNCHANGED iteration
              ELSE /\ tc_idx' = 0
                   /\ pc' = AfterLastToolStream(iteration).pc
                   /\ iteration' = AfterLastToolStream(iteration).iteration
    /\ UNCHANGED <<tool_calls, llm_calls, requested_log, multi_turns, response>>
    /\ UNCHANGED <<llm_plan, accumulated_tool_calls, n_content, total_content,
                   stream_done>>
    /\ UNCHANGED codecVars

\* after the loop: the state link when mutated, then final and complete;
\* when to_url raises, the generator's "except Exception" emits error
StreamFinal ==
    /\ pc = "s_final"
    /\ IF overall_mutated /\ to_url_raises(CURRENT_STATE)
       THEN /\ Emit(<<"error">>)
            /\ UNCHANGED response
       ELSE /\ Emit(<<"final", "complete">>)
            /\ response' = [sent |-> TRUE, mutated |-> overall_mutated,
                            state_link |-> IF overall_mutated THEN "link" ELSE "none",
                            content |-> total_content]
    /\ pc' = "s_done"
    /\ UNCHANGED <<iteration, conversation, tool_results, tool_calls, tc_idx,
                   overall_mutated, mutating_dispatched, CURRENT_STATE, llm_calls, requested_log,
                   dispatch_log, last_dispatch, multi_turns>>
    /\ UNCHANGED <<llm_plan, accumulated_tool_calls, n_content, total_content,
                   stream_done>>
    /\ UNCHANGED codecVars

NextStream ==
    \/ StreamStartIteration
    \/ StreamContent
    \/ StreamToolDelta
    \/ StreamFinish
    \/ StreamEnds
    \/ StreamLLMRaises
    \/ StreamToolStart
    \/ StreamToolRun
    \/ StreamFinal

SpecStream == InitStream /\ [][NextStream]_vars

\* both loops: a request is served by one or the other
InitLoops == InitChat \/ InitStream

NextLoops == NextChat \/ NextStream

SpecLoops == InitLoops /\ [][NextLoops]_vars

-----------------------------------------------------------------------------
(* Properties of the two loops                                             *)

ChatEnded == pc \in {"respond", "done"}

\* C1 (as stated): one /agent/chat request makes at most max_iters model
\* calls in total, every call before the response counted
C1_AtMostMaxItersCalls == llm_calls <= max_iters

\* C1 (amended): one /agent/chat request makes at most max_iters + 1 model
\* calls in total, max_iters in the loop and at most one after it, and the
\* call after the loop is the last thing before the response
C1_AtMostMaxItersPlusOneCalls ==
    /\ llm_calls <= max_iters + 1
    /\ pc \in {"llm", "tools", "after_loop", "crashed"} => llm_calls <= max_iters
    /\ response.sent => pc = "done"

\* a model that asked for a tool on every turn, served to the end
C1_Witness ==
    /\ pc = "done"
    /\ response.sent
    /\ llm_calls = max_iters + 1
    /\ Len(dispatch_log) >= max_iters

IsToolMsg(m) == m.role = "tool"

ToolMsgIds(conv) ==
    LET tools == SelectSeq(conv, IsToolMsg)
    IN [i \in 1..Len(tools) |-> tools[i].tool_call_id]

IsPrefix(a, b) == Len(a) <= Len(b) /\ SubSeq(b, 1, Len(a)) = a

Distinct(s) == Cardinality({s[i] : i \in 1..Len(s)}) = Len(s)

AboutToCallModel == pc \in {"llm", "s_iter"} \/ (pc = "after_loop" /\ NeedsFinalCall)

\* C4: in both loops the calls of a response are dispatched in the order
\* requested, each at most once, and when the next model call is made the
\* conversation holds exactly one tool message per requested call, with its id
C4_SequentialDispatch ==
    /\ IsPrefix(dispatch_log, requested_log)
    /\ Distinct(dispatch_log)
    /\ pc # "crashed" => ToolMsgIds(conversation) = dispatch_log
    /\ AboutToCallModel => ToolMsgIds(conversation) = requested_log

\* a response with two calls has been served and the next model call is due
C4_Witness ==
    /\ pc = "s_iter"
    /\ iteration > 0
    /\ Len(tool_results) = 2
    /\ ToolMsgIds(conversation) = requested_log

\* C5: when chat returns, mutated is true iff a dispatched tool is in
\* MUTATING_TOOLS, and the response carries a state link iff mutated is true
C5_LinkIffMutated ==
    (pc = "done" /\ response.sent) =>
        /\ response.mutated = mutating_dispatched
        /\ (response.state_link = "link") = response.mutated

\* C6: no exception leaves _execute_tool_by_name; an unknown tool, invalid
\* arguments and an exception in a handler all come back as an error result
C6_DispatcherNeverRaises ==
    /\ ~last_dispatch.raised
    /\ last_dispatch.failure # "none" => IsError(last_dispatch.result)
    /\ last_dispatch.failure = "unknown" => last_dispatch.result.error = "unknown_tool"

\* a handler raised (set_view on a state that is not a dict) and the caller
\* got an error result
C6_Witness ==
    /\ last_dispatch.failure = "handler"
    /\ last_dispatch.name = "ng_set_view"
    /\ IsError(last_dispatch.result)
    /\ ~last_dispatch.raised

\* C7: a failing tool call never aborts the loop: its error is appended as
\* that call's tool message and the loop goes on to the next call or to the
\* next model call
C7_FailureNeverAborts ==
    (last_dispatch.id # 0 /\ IsError(last_dispatch.result)) =>
        /\ ~last_dispatch.aborted
        /\ pc # "crashed"
        /\ conversation[Len(conversation)] = Msg("tool", last_dispatch.id, "result", FALSE)
        /\ tool_results[Len(tool_results)] = [id |-> last_dispatch.id, error |-> TRUE]


\* The event grammar as an automaton over the events of one round trip.
\* States: "start", "iter" (after iteration and content), "calls" (after
\* tool_calls), "llm" (after llm_done), "tool" (after tool_start), "ran"
\* (after tool_done or tool_error), "final", "complete", "error", "bad".
StrictStep(q, e) ==
    IF q = "start" /\ e = "iteration" THEN "iter"
    ELSE IF q = "iter" /\ e = "content" THEN "iter"
    ELSE IF q = "iter" /\ e = "tool_calls" THEN "calls"
    ELSE IF q \in {"iter", "calls"} /\ e = "llm_done" THEN "llm"
    ELSE IF q \in {"llm", "ran"} /\ e = "tool_start" THEN "tool"
    ELSE IF q = "tool" /\ e \in {"tool_done", "tool_error"} THEN "ran"
    ELSE IF q \in {"llm", "ran"} /\ e = "final" THEN "final"
    ELSE IF q = "final" /\ e = "complete" THEN "complete"
    ELSE "bad"

\* as StrictStep, and also: the round trip may go on without llm_done when
\* the model's stream stops before its finish chunk, and an error event may
\* end the stream where the next model call or the final event was due
LenientStep(q, e) ==
    IF q = "iter" /\ e = "final" THEN "final"
    ELSE IF q \in {"iter", "llm", "ran"} /\ e = "error" THEN "error"
    ELSE StrictStep(q, e)

RECURSIVE RunStrict(_, _)
RunStrict(q, evs) ==
    IF evs = <<>> THEN q ELSE RunStrict(StrictStep(q, Head(evs)), Tail(evs))

RECURSIVE RunLenient(_, _)
RunLenient(q, evs) ==
    IF evs = <<>> THEN q ELSE RunLenient(LenientStep(q, Head(evs)), Tail(evs))

Count(evs, e) == Cardinality({i \in 1..Len(evs) : evs[i] = e})

StreamRunning == pc \in {"s_iter", "s_llm", "s_tool_start", "s_tool_run", "s_final"}

C9_NoPartialArguments ==
    /\ pc \in {"s_tool_start", "s_tool_run"} => stream_done
    /\ last_dispatch.id # 0 => stream_done
    /\ last_dispatch.entered => last_dispatch.parsable /\ last_dispatch.complete
    /\ ~stream_done => tool_calls = <<>>

\* the stream finished while the arguments of a call were incomplete; the
\* call reached the tool loop and no handler ran
C9_Witness ==
    /\ pc \in {"s_tool_start", "s_iter", "s_final"}
    /\ last_dispatch.id # 0
    /\ last_dispatch.name = "data_info"
    /\ ~last_dispatch.complete
    /\ ~last_dispatch.entered
    /\ IsError(last_dispatch.result)

\* C10: leaving the loop, exactly one more model call is made when the last
\* iteration was used and the last message is a tool result, none otherwise;
\* from then on nothing is dispatched and no further model call follows
C10_ForcedSummarization ==
    [][ /\ (pc = "after_loop" /\ pc' # "after_loop") =>
             llm_calls' = llm_calls +
                 (IF iteration = max_iters - 1 /\ LastRole(conversation) = "tool"
                  THEN 1 ELSE 0)
        /\ pc \in {"after_loop", "respond", "done"} =>
             /\ dispatch_log' = dispatch_log
             /\ CURRENT_STATE' = CURRENT_STATE
             /\ tool_calls' = tool_calls
        /\ pc \in {"respond", "done"} => llm_calls' = llm_calls ]_vars

\* the additional response asked for tools again and none of them was run
C10_Witness ==
    /\ pc = "done"
    /\ llm_calls = max_iters + 1
    /\ conversation[Len(conversation)].has_tool_calls
    /\ dispatch_log = requested_log
    /\ Len(dispatch_log) = max_iters


\* ---------------------------------------------------------------------------
\* State codec: tools/neuroglancer_state.py to_url / from_url.
\* Texts are sequences of one-character strings.  A JSON value is a record
\* [t, v]: "num" (a natural), "str" (a text), "arr" (a sequence of values),
\* "obj" (a sequence of <<key text, value>> pairs in insertion order).
\* ---------------------------------------------------------------------------

NEURO_BASE ==
    <<"h", "t", "t", "p", "s", ":", "/", "/", "n", "e", "u", "r", "o", "g",
      "l", "a", "n", "c", "e", "r", "-", "d", "e", "m", "o", ".", "a", "p",
      "p", "s", "p", "o", "t", ".", "c", "o", "m">>

Num(n) == [t |-> "num", v |-> n]
Str(s) == [t |-> "str", v |-> s]
Arr(items) == [t |-> "arr", v |-> items]
Obj(members) == [t |-> "obj", v |-> members]
\* a float n.f: f holds the digits after the point, trailing zeros dropped
Float(n) == [t |-> "float", v |-> n, f |-> <<>>]
Bool(b) == [t |-> "bool", v |-> b]
Null == [t |-> "null", v |-> 0]

\* the printable ASCII characters (the backquote left out), each with the two
\* hexadecimal digits of its byte
Ascii ==
    <<
      <<" ", "2", "0">>, <<"!", "2", "1">>, <<"\"", "2", "2">>, <<"#", "2", "3">>,
      <<"$", "2", "4">>, <<"%", "2", "5">>, <<"&", "2", "6">>, <<"'", "2", "7">>,
      <<"(", "2", "8">>, <<")", "2", "9">>, <<"*", "2", "A">>, <<"+", "2", "B">>,
      <<",", "2", "C">>, <<"-", "2", "D">>, <<".", "2", "E">>, <<"/", "2", "F">>,
      <<"0", "3", "0">>, <<"1", "3", "1">>, <<"2", "3", "2">>, <<"3", "3", "3">>,
      <<"4", "3", "4">>, <<"5", "3", "5">>, <<"6", "3", "6">>, <<"7", "3", "7">>,
      <<"8", "3", "8">>, <<"9", "3", "9">>, <<":", "3", "A">>, <<";", "3", "B">>,
      <<"<", "3", "C">>, <<"=", "3", "D">>, <<">", "3", "E">>, <<"?", "3", "F">>,
      <<"@", "4", "0">>, <<"A", "4", "1">>, <<"B", "4", "2">>, <<"C", "4", "3">>,
      <<"D", "4", "4">>, <<"E", "4", "5">>, <<"F", "4", "6">>, <<"G", "4", "7">>,
      <<"H", "4", "8">>, <<"I", "4", "9">>, <<"J", "4", "A">>, <<"K", "4", "B">>,
      <<"L", "4", "C">>, <<"M", "4", "D">>, <<"N", "4", "E">>, <<"O", "4", "F">>,
      <<"P", "5", "0">>, <<"Q", "5", "1">>, <<"R", "5", "2">>, <<"S", "5", "3">>,
      <<"T", "5", "4">>, <<"U", "5", "5">>, <<"V", "5", "6">>, <<"W", "5", "7">>,
      <<"X", "5", "8">>, <<"Y", "5", "9">>, <<"Z", "5", "A">>, <<"[", "5", "B">>,
      <<"\\", "5", "C">>, <<"]", "5", "D">>, <<"^", "5", "E">>, <<"_", "5", "F">>,
      <<"a", "6", "1">>, <<"b", "6", "2">>, <<"c", "6", "3">>,
      <<"d", "6", "4">>, <<"e", "6", "5">>, <<"f", "6", "6">>, <<"g", "6", "7">>,
      <<"h", "6", "8">>, <<"i", "6", "9">>, <<"j", "6", "A">>, <<"k", "6", "B">>,
      <<"l", "6", "C">>, <<"m", "6", "D">>, <<"n", "6", "E">>, <<"o", "6", "F">>,
      <<"p", "7", "0">>, <<"q", "7", "1">>, <<"r", "7", "2">>, <<"s", "7", "3">>,
      <<"t", "7", "4">>, <<"u", "7", "5">>, <<"v", "7", "6">>, <<"w", "7", "7">>,
      <<"x", "7", "8">>, <<"y", "7", "9">>, <<"z", "7", "A">>, <<"{", "7", "B">>,
      <<"|", "7", "C">>, <<"}", "7", "D">>, <<"~", "7", "E">>
    >>

Digits == <<"0", "1", "2", "3", "4", "5", "6", "7", "8", "9">>
DigitSet == {Digits[i] : i \in 1..10}
IsDigit(c) == c \in DigitSet
DigitVal(c) == (CHOOSE i \in 1..10 : Digits[i] = c) - 1

RECURSIVE NatToChars(_)
NatToChars(n) ==
    IF n < 10 THEN <<Digits[n + 1]>>
    ELSE NatToChars(n \div 10) \o <<Digits[(n % 10) + 1]>>

\* json.dumps of a str: the quote and the backslash are escaped
EscapeChar(c) ==
    IF c = "\"" THEN <<"\\", "\"">>
    ELSE IF c = "\\" THEN <<"\\", "\\">>
    ELSE <<c>>

\* a string without a quote or a backslash is its own escaped form
RECURSIVE EscapeString(_)
EscapeString(s) ==
    IF \A i \in 1..Len(s) : s[i] \notin {"\"", "\\"} THEN s
    ELSE EscapeChar(Head(s)) \o EscapeString(Tail(s))

DumpString(s) == <<"\"">> \o EscapeString(s) \o <<"\"">>

\* float.__repr__, True / False / None as JSON
DumpFloat(val) ==
    NatToChars(val.v) \o <<".">> \o (IF val.f = <<>> THEN <<"0">> ELSE val.f)

DumpLiteral(val) ==
    IF val.t = "null" THEN <<"n", "u", "l", "l">>
    ELSE IF val.v THEN <<"t", "r", "u", "e">>
    ELSE <<"f", "a", "l", "s", "e">>

\* json.dumps(value, separators=(",", ":")): members in insertion order
RECURSIVE json_dumps(_), DumpItems(_), DumpMembers(_)
\* json.dumps with sort_keys=True: members in the order of their keys
json_dumps_sort_keys(val) ==
    LET RECURSIVE Less(_, _)
        Less(a, b) ==
            IF b = <<>> THEN FALSE
            ELSE IF a = <<>> THEN TRUE
            ELSE IF Head(a) = Head(b) THEN Less(Tail(a), Tail(b))
            ELSE (CHOOSE i \in 1..Len(Ascii) : Ascii[i][1] = Head(a))
                 < (CHOOSE i \in 1..Len(Ascii) : Ascii[i][1] = Head(b))
        Sorted(m) ==
            [r \in 1..Len(m) |->
                m[CHOOSE i \in 1..Len(m) :
                     Cardinality({j \in 1..Len(m) : Less(m[j][1], m[i][1])}) = r - 1]]
    IN  CASE val.t = "num" -> NatToChars(val.v)
          [] val.t = "str" -> DumpString(val.v)
          [] val.t = "arr" -> <<"[">> \o DumpItems(val.v) \o <<"]">>
          [] val.t = "obj" -> <<"{">> \o DumpMembers(Sorted(val.v)) \o <<"}">>
          [] val.t = "float" -> DumpFloat(val)
          [] val.t \in {"bool", "null"} -> DumpLiteral(val)

json_dumps(val) ==
    CASE val.t = "num" -> NatToChars(val.v)
      [] val.t = "str" -> DumpString(val.v)
      [] val.t = "arr" -> <<"[">> \o DumpItems(val.v) \o <<"]">>
      [] val.t = "obj" -> <<"{">> \o DumpMembers(val.v) \o <<"}">>
      [] val.t = "float" -> DumpFloat(val)
      [] val.t \in {"bool", "null"} -> DumpLiteral(val)

DumpItems(items) ==
    IF items = <<>> THEN <<>>
    ELSE json_dumps(Head(items)) \o
         (IF Len(items) > 1 THEN <<",">> \o DumpItems(Tail(items)) ELSE <<>>)

DumpMembers(members) ==
    IF members = <<>> THEN <<>>
    ELSE DumpString(Head(members)[1]) \o <<":">> \o json_dumps(Head(members)[2]) \o
         (IF Len(members) > 1 THEN <<",">> \o DumpMembers(Tail(members)) ELSE <<>>)


\* json.loads: a recursive-descent reading of a text.  Each step returns
\* [ok, val, rest]; ok = FALSE stands for the JSONDecodeError.
ParseFail == [ok |-> FALSE, val |-> Num(0), rest |-> <<>>]
Parsed(val, rest) == [ok |-> TRUE, val |-> val, rest |-> rest]

RECURSIVE SkipWs(_)
SkipWs(s) == IF s # <<>> /\ Head(s) = " " THEN SkipWs(Tail(s)) ELSE s

\* digits of an integer after its first one
RECURSIVE ParseDigits(_, _)
ParseDigits(s, acc) ==
    IF s # <<>> /\ IsDigit(Head(s))
    THEN ParseDigits(Tail(s), 10 * acc + DigitVal(Head(s)))
    ELSE Parsed(Num(acc), s)

\* the digits after a decimal point
RECURSIVE ParseFraction(_, _)
ParseFraction(s, acc) ==
    IF s # <<>> /\ IsDigit(Head(s)) THEN ParseFraction(Tail(s), Append(acc, Head(s)))
    ELSE [digits |-> acc, rest |-> s]

RECURSIVE StripZeros(_)
StripZeros(ds) ==
    IF ds # <<>> /\ ds[Len(ds)] = "0" THEN StripZeros(SubSeq(ds, 1, Len(ds) - 1))
    ELSE ds

\* a leading zero is a number of its own; a point followed by digits makes
\* the number a float
ParseNumber(s) ==
    LET int == IF Head(s) = "0" THEN Parsed(Num(0), Tail(s))
               ELSE ParseDigits(Tail(s), DigitVal(Head(s)))
        r == int.rest
    IN  IF Len(r) >= 2 /\ r[1] = "." /\ IsDigit(r[2])
        THEN LET fr == ParseFraction(Tail(r), <<>>) IN
             Parsed([t |-> "float", v |-> int.val.v, f |-> StripZeros(fr.digits)],
                    fr.rest)
        ELSE int

StartsWith(s, word) == Len(s) >= Len(word) /\ SubSeq(s, 1, Len(word)) = word

\* the number of characters at the start of s before a quote or a backslash
PlainRun(s) ==
    (CHOOSE i \in 1..(Len(s) + 1) :
        /\ i = Len(s) + 1 \/ s[i] \in {"\"", "\\"}
        /\ \A j \in 1..(i - 1) : s[j] \notin {"\"", "\\"}) - 1

\* the text after an opening quote, up to the closing one; the characters
\* up to the next quote or backslash are taken as they are
RECURSIVE ParseString(_, _)
ParseString(s, acc) ==
    IF s = <<>> THEN ParseFail
    ELSE IF Head(s) = "\"" THEN Parsed(Str(acc), Tail(s))
    ELSE IF Head(s) = "\\"
         THEN IF Len(s) >= 2 /\ s[2] \in {"\"", "\\"}
              THEN ParseString(Tail(Tail(s)), Append(acc, s[2]))
              ELSE ParseFail
    ELSE ParseString(SubSeq(s, PlainRun(s) + 1, Len(s)),
                     acc \o SubSeq(s, 1, PlainRun(s)))

\* dict assignment: a repeated key keeps its first position, takes the new value
PutMember(members, key, val) ==
    IF \E i \in 1..Len(members) : members[i][1] = key
    THEN [i \in 1..Len(members) |->
             IF members[i][1] = key THEN <<key, val>> ELSE members[i]]
    ELSE Append(members, <<key, val>>)

\* the character a text starts with, "" for the empty text
First(s) == IF s = <<>> THEN "" ELSE Head(s)

\* the key of a member and its colon: the text starts at the key, the rest
\* starts at the value
AfterColon(key) ==
    IF key.ok /\ First(SkipWs(key.rest)) = ":"
    THEN Parsed(key.val, SkipWs(Tail(SkipWs(key.rest))))
    ELSE ParseFail

ParseKey(s) ==
    IF First(s) = "\"" THEN AfterColon(ParseString(Tail(s), <<>>)) ELSE ParseFail

\* The parser proper.  The text handed to ParseValue and to MembersOf starts
\* at the value or the key: the white space before it has been skipped.
\* ItemsAfter is handed the item just read and the items before it
RECURSIVE ParseValue(_), ItemsAfter(_, _), MembersOf(_, _), MembersAfter(_)
ParseValue(s) ==
    CASE s = <<>> -> ParseFail
      [] Head(s) = "{" /\ First(SkipWs(Tail(s))) = "}" ->
            Parsed(Obj(<<>>), Tail(SkipWs(Tail(s))))
      [] Head(s) = "{" -> MembersOf(SkipWs(Tail(s)), <<>>)
      [] Head(s) = "[" /\ First(SkipWs(Tail(s))) = "]" ->
            Parsed(Arr(<<>>), Tail(SkipWs(Tail(s))))
      [] Head(s) = "[" -> ItemsAfter(ParseValue(SkipWs(Tail(s))), <<>>)
      [] Head(s) = "\"" -> ParseString(Tail(s), <<>>)
      [] IsDigit(Head(s)) -> ParseNumber(s)
      [] StartsWith(s, <<"t", "r", "u", "e">>) ->
            Parsed(Bool(TRUE), SubSeq(s, 5, Len(s)))
      [] StartsWith(s, <<"f", "a", "l", "s", "e">>) ->
            Parsed(Bool(FALSE), SubSeq(s, 6, Len(s)))
      [] StartsWith(s, <<"n", "u", "l", "l">>) ->
            Parsed(Null, SubSeq(s, 5, Len(s)))
      [] OTHER -> ParseFail

\* the items of an array: after an item comes "," and the next item, or "]"
ItemsAfter(item, acc) ==
    CASE ~item.ok -> ParseFail
      [] First(SkipWs(item.rest)) = "," ->
            ItemsAfter(ParseValue(SkipWs(Tail(SkipWs(item.rest)))),
                       Append(acc, item.val))
      [] First(SkipWs(item.rest)) = "]" ->
            Parsed(Arr(Append(acc, item.val)), Tail(SkipWs(item.rest)))
      [] OTHER -> ParseFail

\* the members of an object: "key": value, then "," and the next member, or
\* "}".  WithMember is the dict after the member just read, and the text
\* after it
WithMember(acc, key, item) ==
    [ok |-> key.ok /\ item.ok,
     val |-> IF key.ok /\ item.ok THEN PutMember(acc, key.val.v, item.val) ELSE acc,
     rest |-> SkipWs(item.rest)]

MembersOf(s, acc) ==
    MembersAfter(WithMember(acc, ParseKey(s), ParseValue(ParseKey(s).rest)))

MembersAfter(m) ==
    CASE ~m.ok -> ParseFail
      [] First(m.rest) = "," -> MembersOf(SkipWs(Tail(m.rest)), m.val)
      [] First(m.rest) = "}" -> Parsed(Obj(m.val), Tail(m.rest))
      [] OTHER -> ParseFail

\* the whole text is one value
Loaded(r) ==
    IF r.ok /\ SkipWs(r.rest) = <<>> THEN [ok |-> TRUE, val |-> r.val]
    ELSE [ok |-> FALSE, val |-> Num(0)]

json_loads(text) == Loaded(ParseValue(SkipWs(text)))


\* urllib.parse quote / unquote
Letters ==
    {"a", "b", "c", "d", "e", "f", "g", "h", "i", "j", "k", "l", "m", "n", "o",
     "p", "q", "r", "s", "t", "u", "v", "w", "x", "y", "z",
     "A", "B", "C", "D", "E", "F", "G", "H", "I", "J", "K", "L", "M", "N", "O",
     "P", "Q", "R", "S", "T", "U", "V", "W", "X", "Y", "Z"}

\* characters quote never encodes
SafeChars == Letters \cup DigitSet \cup {"_", ".", "-", "~"}
AlwaysSafe(c) == c \in SafeChars

\* the "%XX" form of every character of the table
PercentCodes ==
    [c \in {Ascii[i][1] : i \in 1..Len(Ascii)} |->
        LET row == Ascii[CHOOSE i \in 1..Len(Ascii) : Ascii[i][1] = c] IN
        <<"%", row[2], row[3]>>]
PercentCode(c) == PercentCodes[c]

\* quote(text, safe=""): every character outside the always-safe set is
\* encoded; the text is encoded half by half
RECURSIVE quote(_)
quote(s) ==
    IF s = <<>> THEN <<>>
    ELSE IF Len(s) = 1 THEN (IF AlwaysSafe(s[1]) THEN s ELSE PercentCode(s[1]))
    ELSE quote(SubSeq(s, 1, Len(s) \div 2))
         \o quote(SubSeq(s, (Len(s) \div 2) + 1, Len(s)))

HexLetters == {"a", "b", "c", "d", "e", "f", "A", "B", "C", "D", "E", "F"}
IsHex(c) == IsDigit(c) \/ c \in HexLetters
UpperHex(c) ==
    CASE c = "a" -> "A" [] c = "b" -> "B" [] c = "c" -> "C"
      [] c = "d" -> "D" [] c = "e" -> "E" [] c = "f" -> "F"
      [] OTHER -> c

\* the character of a byte; a byte outside the table decodes to the
\* replacement character
ReplacementChar == "U+FFFD"
ByteChars ==
    [b \in {<<Ascii[i][2], Ascii[i][3]>> : i \in 1..Len(Ascii)} |->
        Ascii[CHOOSE i \in 1..Len(Ascii) : <<Ascii[i][2], Ascii[i][3]>> = b][1]]
DecodeByte(hi, lo) ==
    IF <<UpperHex(hi), UpperHex(lo)>> \in DOMAIN ByteChars
    THEN ByteChars[<<UpperHex(hi), UpperHex(lo)>>]
    ELSE ReplacementChar

\* an escape starts at i: "%" followed by two hexadecimal digits
EscapeAt(s, i) ==
    i >= 1 /\ i + 2 <= Len(s) /\ s[i] = "%" /\ IsHex(s[i + 1]) /\ IsHex(s[i + 2])

\* a place near the middle of s where no escape is cut in two
CutNear(s, h) ==
    IF EscapeAt(s, h) THEN h - 1 ELSE IF EscapeAt(s, h - 1) THEN h + 1 ELSE h

\* unquote: "%" followed by two hexadecimal digits is decoded, any other
\* character is kept; the text is decoded part by part, no escape being cut
RECURSIVE unquote(_)
unquote(s) ==
    IF Len(s) < 3 THEN s
    ELSE IF Len(s) = 3
         THEN (IF EscapeAt(s, 1) THEN <<DecodeByte(s[2], s[3])>> ELSE s)
    ELSE unquote(SubSeq(s, 1, CutNear(s, Len(s) \div 2)))
         \o unquote(SubSeq(s, CutNear(s, Len(s) \div 2) + 1, Len(s)))

\* str.strip()
RECURSIVE StripLeft(_), StripRight(_)
StripLeft(s) == IF s # <<>> /\ Head(s) = " " THEN StripLeft(Tail(s)) ELSE s
StripRight(s) ==
    IF s # <<>> /\ s[Len(s)] = " " THEN StripRight(SubSeq(s, 1, Len(s) - 1)) ELSE s
Strip(s) == StripRight(StripLeft(s))

\* the text after the first "#" when one occurs, the whole text otherwise
AfterFirstHash(s) ==
    IF \E i \in 1..Len(s) : s[i] = "#"
    THEN LET first == CHOOSE i \in 1..Len(s) :
                          s[i] = "#" /\ \A j \in 1..(i - 1) : s[j] # "#" IN
         SubSeq(s, first + 1, Len(s))
    ELSE s

\* from_url: [ok, val]; ok = FALSE stands for the exception of the last
\* json.loads
from_url(url_or_fragment) ==
    LET s0 == Strip(url_or_fragment)
        s1 == AfterFirstHash(s0)
        s == IF s1 # <<>> /\ Head(s1) = "!" THEN Tail(s1) ELSE s1
        decoded == unquote(s)
        candidate == IF decoded # <<>> THEN decoded ELSE s
        first == json_loads(candidate)
    IN  IF first.ok THEN first ELSE json_loads(s)

\* to_url: [ok, url]; a str argument is parsed by from_url first, and a value
\* that is not a dict raises
UrlRaised == [ok |-> FALSE, url |-> <<>>]

\* to_url without the isinstance(state, str) branch
to_url_dict_only(state) ==
    IF state.t # "obj" THEN UrlRaised
    ELSE [ok |-> TRUE,
          url |-> NEURO_BASE \o <<"#", "!">> \o quote(json_dumps(state))]

to_url(state) ==
    LET parsed == IF state.t = "str" THEN from_url(state.v)
                  ELSE [ok |-> TRUE, val |-> state]
    IN  IF ~parsed.ok THEN UrlRaised
        ELSE IF parsed.val.t # "obj" THEN UrlRaised
        ELSE LET state_str == json_dumps(parsed.val)
                 encoded == quote(state_str)
             IN  [ok |-> TRUE, url |-> NEURO_BASE \o <<"#", "!">> \o encoded]


\* ---------------------------------------------------------------------------
\* Viewer states fed to the codec.  cs is the state s; cu records what the
\* calls returned: urls[1] = to_url(s), urls[k + 1] = to_url(urls[k]),
\* decoded = from_url(urls[1]), reencoded = to_url(decoded).
\* ---------------------------------------------------------------------------

MaxDims == 4      \* dimension keys of a state
MaxStrLen == 2    \* characters of the layout string
MaxRepeat == 2    \* applications of to_url to its own output

Axes == {"x", "y", "z", "t"}
StringAlphabet == {"#", "%", "2", "\""}

K_dimensions == <<"d", "i", "m", "e", "n", "s", "i", "o", "n", "s">>
K_position == <<"p", "o", "s", "i", "t", "i", "o", "n">>
K_layout == <<"l", "a", "y", "o", "u", "t">>

\* sequences over S of length at most n
SeqsUpTo(S, n) == UNION {[1..k -> S] : k \in 0..n}

\* the coordinate stored for an axis, so that a position can be told apart
\* from any reordering of it
Coordinate(axis) ==
    CASE axis = "x" -> 10 [] axis = "y" -> 205 [] axis = "z" -> 0 [] axis = "t" -> 7

\* the default state of NeuroglancerState.__init__ generalised: dimension keys
\* in any order, one coordinate per key, a layout string
ViewerState(axes, layout) ==
    Obj(<< <<K_dimensions,
             Obj([i \in 1..Len(axes) |->
                     <<(<<axes[i]>>), Arr(<<Num(1), Str(<<"m">>)>>)>>])>>,
           <<K_position, Arr([i \in 1..Len(axes) |-> Num(Coordinate(axes[i]))])>>,
           <<K_layout, Str(layout)>> >>)

ValidStates ==
    {ViewerState(axes, layout) :
        axes \in {a \in SeqsUpTo(Axes, MaxDims) : Distinct(a)},
        layout \in SeqsUpTo(StringAlphabet, MaxStrLen)}

\* dict access
Member(obj, key) == obj.v[CHOOSE i \in 1..Len(obj.v) : obj.v[i][1] = key][2]
Keys(obj) == [i \in 1..Len(obj.v) |-> obj.v[i][1]]

NotCalled == [ok |-> FALSE, val |-> Num(0)]

InitCodec ==
    /\ pc = "codec"
    /\ conversation = <<>>
    /\ RequestStart
    /\ StreamIdle
    /\ cs \in ValidStates
    /\ cu = [step |-> "start", urls |-> <<>>, decoded |-> NotCalled,
             reencoded |-> UrlRaised]

\* url = to_url(s)
CodecEncode ==
    /\ pc = "codec" /\ cu.step = "start"
    /\ cu' = [cu EXCEPT !.step = "encoded", !.urls = <<to_url(cs)>>]
    /\ UNCHANGED <<cs, chatVars, streamVars>>

\* decoded = from_url(url)
CodecDecode ==
    /\ pc = "codec" /\ cu.step = "encoded"
    /\ cu.urls[1].ok
    /\ cu' = [cu EXCEPT !.step = "decoded", !.decoded = from_url(cu.urls[1].url)]
    /\ UNCHANGED <<cs, chatVars, streamVars>>

\* to_url(decoded)
CodecReencode ==
    /\ pc = "codec" /\ cu.step = "decoded"
    /\ cu.decoded.ok
    /\ cu' = [cu EXCEPT !.step = "reencoded", !.reencoded = to_url(cu.decoded.val)]
    /\ UNCHANGED <<cs, chatVars, streamVars>>

\* to_url applied to the URL the previous to_url returned
CodecEncodeUrl ==
    /\ pc = "codec" /\ cu.step = "reencoded"
    /\ Len(cu.urls) <= MaxRepeat
    /\ cu.urls[Len(cu.urls)].ok
    /\ cu' = [cu EXCEPT !.urls = Append(@, to_url(Str(cu.urls[Len(cu.urls)].url)))]
    /\ UNCHANGED <<cs, chatVars, streamVars>>

\* the input forms from_url documents for a state: the full URL, the
\* fragment with its "#!" or "#", the percent-encoded JSON, the raw JSON
InputForms == {"url", "hashbang", "hash", "encoded", "raw"}

InputForm(form, state) ==
    CASE form = "url" -> to_url(state).url
      [] form = "hashbang" -> <<"#", "!">> \o quote(json_dumps(state))
      [] form = "hash" -> <<"#">> \o quote(json_dumps(state))
      [] form = "encoded" -> quote(json_dumps(state))
      [] form = "raw" -> json_dumps(state)

\* from_url(text) for one input form of s
CodecDecodeForm ==
    /\ pc = "codec" /\ cu.step = "start"
    /\ \E form \in InputForms :
          cu' = [step |-> "form", form |-> form, urls |-> <<>>,
                 decoded |-> from_url(InputForm(form, cs)), reencoded |-> UrlRaised]
    /\ UNCHANGED <<cs, chatVars, streamVars>>

NextCodec ==
    \/ CodecEncode
    \/ CodecDecode
    \/ CodecReencode
    \/ CodecEncodeUrl
    \/ CodecDecodeForm

SpecCodec == InitCodec /\ [][NextCodec]_vars

C3_Idempotent ==
    pc = "codec" =>
        /\ cu.step = "reencoded" => cu.reencoded = cu.urls[1]
        /\ \A k \in 1..Len(cu.urls) : cu.urls[k].ok /\ cu.urls[k] = cu.urls[1]

\* to_url has been applied MaxRepeat times to its own output for a state
\* whose layout holds a percent sign and a quote
C3_Witness ==
    /\ pc = "codec" /\ cu.step = "reencoded"
    /\ Len(cu.urls) = MaxRepeat + 1
    /\ cu.reencoded.ok
    /\ Len(Keys(Member(cs, K_dimensions))) = 3
    /\ Member(cs, K_layout) = Str(<<"%", "\"">>)


\* ---------------------------------------------------------------------------
\* The response of /agent/chat
\* ---------------------------------------------------------------------------

\* C11: whatever the model does, the final assistant message returned by
\* /agent/chat has a non-empty string as its content
C11_NonEmptyFinalMessage ==
    (pc = "done" /\ response.sent) => response.content # ""


\* the loop was left by the "no choices" break: no tool was dispatched since
\* the latest model call and no answer was appended
BrokeOnNoChoices ==
    /\ pc = "after_loop"
    /\ last_dispatch = NoDispatch
    /\ LastRole(conversation) # "assistant"

\* C12: once a model call has returned no choices, the request makes no
\* further model call and dispatches no tool, and the caller receives the
\* latest assistant message of the conversation as it was, or "(no response)"
C12_NoChoicesEndsRequest ==
    [][ /\ BrokeOnNoChoices =>
             /\ llm_calls' = llm_calls
             /\ dispatch_log' = dispatch_log
             /\ conversation' = conversation
        /\ (pc = "respond" /\ pc' = "done") =>
             /\ response'.sent
             /\ response'.content = LastAssistantContent(conversation) ]_vars


\* ---------------------------------------------------------------------------
\* The two loops side by side.  One scripted model serves a /agent/chat
\* request and then, on a fresh server, a /agent/chat/stream request with the
\* same prompt.  cs is the script, cu holds what each request ended with.
\* ---------------------------------------------------------------------------

MaxPrefix == 1    \* scripted tool-call responses before the repeated one

\* a model response: no choices, an answer, or one tool call; content tells
\* whether it carries text
NoChoices == [kind |-> "none", content |-> FALSE, call |-> <<>>]
Answer(content) == [kind |-> "answer", content |-> content, call |-> <<>>]
Calls(request, content) == [kind |-> "calls", content |-> content, call |-> request]

\* a scripted model: the tool calls of its first responses, whether its
\* tool-call responses carry text, and the response it gives from then on
Scripts ==
    [prefix : SeqsUpTo(MockRequests, MaxPrefix),
     prefix_content : BOOLEAN,
     then : {NoChoices} \cup {Answer(c) : c \in BOOLEAN}
              \cup {Calls(r, FALSE) : r \in MockRequests}]

\* the response to the (k+1)-th model call of a request
Resp(k) ==
    IF k < Len(cs.prefix) THEN Calls(cs.prefix[k + 1], cs.prefix_content)
    ELSE IF cs.then.kind = "calls" THEN Calls(cs.then.call, cs.prefix_content)
    ELSE cs.then

ContentOf(resp) == IF resp.content THEN "text" ELSE ""

\* what a request ended with
Outcome ==
    [model_calls |-> llm_calls, dispatched |-> dispatch_log,
     state |-> CURRENT_STATE, mutated |-> overall_mutated,
     returned |-> response.sent, text |-> response.content]

InitEquiv ==
    /\ pc = "llm"
    /\ conversation = BaseMessages \o <<Msg("user", 0, "text", FALSE)>>
    /\ RequestStart
    /\ StreamIdle
    /\ cs \in Scripts
    /\ cu = [phase |-> "chat"]

\* the buffered loop served by the script
EquivChatNoChoices ==
    cu.phase = "chat" /\ Resp(llm_calls).kind = "none" /\ ChatNoChoices

EquivChatFinalAnswer ==
    /\ cu.phase = "chat" /\ Resp(llm_calls).kind = "answer"
    /\ ChatFinalAnswer
    /\ conversation'[Len(conversation')].content = ContentOf(Resp(llm_calls))

EquivChatToolCalls ==
    /\ cu.phase = "chat" /\ Resp(llm_calls).kind = "calls"
    /\ ChatToolCalls
    /\ tool_calls' = WithIds(<<Resp(llm_calls).call>>, iteration)

EquivChatDispatchTool == cu.phase = "chat" /\ ChatDispatchTool

EquivChatFinalCall ==
    /\ cu.phase = "chat"
    /\ ChatFinalCall
    /\ IF Resp(llm_calls).kind = "none" THEN conversation' = conversation
       ELSE /\ Len(conversation') = Len(conversation) + 1
            /\ conversation'[Len(conversation')] =
                  Msg("assistant", 0, ContentOf(Resp(llm_calls)),
                      Resp(llm_calls).kind = "calls")

EquivChatSkipFinalCall == cu.phase = "chat" /\ ChatSkipFinalCall

EquivChatRespond == cu.phase = "chat" /\ ChatRespond


\* the buffered request is over (answered or aborted); the same prompt is
\* sent to /agent/chat/stream of a server in its initial state
EquivSwitch ==
    /\ cu.phase = "chat"
    /\ pc \in {"done", "crashed"}
    /\ cu' = [phase |-> "stream", chat |-> Outcome]
    /\ pc' = "s_iter"
    /\ conversation' = BaseMessagesStream \o <<Msg("user", 0, "text", FALSE)>>
    /\ iteration' = 0
    /\ tool_results' = <<>>
    /\ tool_calls' = <<>>
    /\ tc_idx' = 0
    /\ overall_mutated' = FALSE
    /\ mutating_dispatched' = FALSE
    /\ CURRENT_STATE' = DefaultState
    /\ llm_calls' = 0
    /\ requested_log' = <<>>
    /\ dispatch_log' = <<>>
    /\ last_dispatch' = NoDispatch
    /\ multi_turns' = 0
    /\ response' = NoResponse
    /\ UNCHANGED <<streamVars, cs>>

\* the streamed loop served by the script: the response arrives in full,
\* in whatever fragments
EquivStreamStartIteration ==
    /\ cu.phase = "stream"
    /\ StreamStartIteration
    /\ llm_plan' = IF Resp(llm_calls).kind = "calls"
                   THEN WithIds(<<Resp(llm_calls).call>>, iteration)
                   ELSE <<>>

EquivStreamContent ==
    /\ cu.phase = "stream" /\ pc = "s_llm"
    /\ Resp(llm_calls - 1).content
    /\ n_content = 0
    /\ StreamContent

EquivStreamToolDelta == cu.phase = "stream" /\ StreamToolDelta

EquivStreamFinish ==
    /\ cu.phase = "stream" /\ pc = "s_llm"
    /\ Resp(llm_calls - 1).kind # "none"
    /\ Resp(llm_calls - 1).content => n_content > 0
    /\ Len(accumulated_tool_calls) = Len(llm_plan)
    /\ \A j \in 1..Len(llm_plan) :
          accumulated_tool_calls[j].arguments = llm_plan[j].arguments
    /\ StreamFinish

\* no response: the chunk iterator yields nothing
EquivStreamEnds ==
    /\ cu.phase = "stream" /\ pc = "s_llm"
    /\ Resp(llm_calls - 1).kind = "none"
    /\ StreamEnds

EquivStreamToolStart == cu.phase = "stream" /\ StreamToolStart

EquivStreamToolRun == cu.phase = "stream" /\ StreamToolRun

EquivStreamFinal == cu.phase = "stream" /\ StreamFinal

\* the streamed request is over
EquivCompare ==
    /\ cu.phase = "stream"
    /\ pc = "s_done"
    /\ cu' = [phase |-> "both", chat |-> cu.chat, stream |-> Outcome]
    /\ UNCHANGED <<cs, chatVars, streamVars>>

NextEquiv ==
    \/ EquivChatNoChoices
    \/ EquivChatFinalAnswer
    \/ EquivChatToolCalls
    \/ EquivChatDispatchTool
    \/ EquivChatFinalCall
    \/ EquivChatSkipFinalCall
    \/ EquivChatRespond
    \/ EquivSwitch
    \/ EquivStreamStartIteration
    \/ EquivStreamContent
    \/ EquivStreamToolDelta
    \/ EquivStreamFinish
    \/ EquivStreamEnds
    \/ EquivStreamToolRun
    \/ EquivStreamToolStart
    \/ EquivStreamFinal
    \/ EquivCompare

SpecEquiv == InitEquiv /\ [][NextEquiv]_vars

\* C13: served by the same model from the same state and prompt, the
\* streamed request makes the same model calls and the same tool dispatches
\* as the buffered one and ends with the same state, flag and text
C13_SameStateMachine ==
    (pc = "s_done" /\ cu.phase = "both") => cu.stream = cu.chat


-----------------------------------------------------------------------------
(* The streamed loop with a caller that may leave.                         *)
(* event_generator is an async generator whose body runs without           *)
(* suspension from one yield to the next; the response object pulls one    *)
(* event at a time.  When the caller leaves, the generator is not resumed  *)
(* from the yield it is suspended at (it is closed there: GeneratorExit    *)
(* and CancelledError are not caught by "except Exception").  cs is the    *)
(* connection.                                                             *)

InitDisconnect ==
    /\ pc = "s_iter"
    /\ conversation = BaseMessagesStream \o <<Msg("user", 0, "text", FALSE)>>
    /\ RequestStart
    /\ StreamIdle
    /\ cs = "open"
    /\ cu = <<>>

\* the generator is resumed although the caller has left
StreamDisconnectIgnored ==
    /\ cs = "open"
    /\ pc \notin {"s_done", "s_closed"}
    /\ cs' = "closed"
    /\ UNCHANGED <<cu, chatVars, streamVars>>

\* the caller leaves: the generator stays at its yield for good and its
\* locals are dropped; the process-wide state and what was already emitted
\* and dispatched remain
StreamDisconnect ==
    /\ cs = "open"
    /\ pc \notin {"s_done", "s_closed"}
    /\ cs' = "closed"
    /\ pc' = "s_closed"
    /\ conversation' = <<>>
    /\ tool_results' = <<>>
    /\ tool_calls' = <<>>
    /\ tc_idx' = 0
    /\ llm_plan' = <<>>
    /\ accumulated_tool_calls' = <<>>
    /\ n_content' = 0
    /\ UNCHANGED <<iteration, overall_mutated, mutating_dispatched, CURRENT_STATE,
                   llm_calls, requested_log, dispatch_log, last_dispatch,
                   multi_turns, response, total_content, stream_done, events, cu>>

NextDisconnect ==
    \/ NextStream
    \/ StreamDisconnect

SpecDisconnect == InitDisconnect /\ [][NextDisconnect]_vars

-----------------------------------------------------------------------------
(* NeuroglancerState mutators: tools/neuroglancer_state.py.                *)
(* The state is a graph of Python dicts and lists.  A heap is a sequence   *)
(* of cells, each an Obj or an Arr whose dict and list members are         *)
(* references to other cells, so that two states can be seen to share a    *)
(* cell.  A mutator takes the heap and the address of the data dict and    *)
(* returns the heap it leaves and whether it raised.                       *)

\* keys and string constants of the state, as characters
K_crossSectionScale == <<"c", "r", "o", "s", "s", "S", "e", "c", "t", "i", "o", "n", "S", "c", "a", "l", "e">>
K_projectionScale == <<"p", "r", "o", "j", "e", "c", "t", "i", "o", "n", "S", "c", "a", "l", "e">>
K_layers == <<"l", "a", "y", "e", "r", "s">>
K_type == <<"t", "y", "p", "e">>
K_name == <<"n", "a", "m", "e">>
K_source == <<"s", "o", "u", "r", "c", "e">>
K_visible == <<"v", "i", "s", "i", "b", "l", "e">>
K_url == <<"u", "r", "l">>
K_tool == <<"t", "o", "o", "l">>
K_tab == <<"t", "a", "b">>
K_annotationColor == <<"a", "n", "n", "o", "t", "a", "t", "i", "o", "n", "C", "o", "l", "o", "r">>
K_annotations == <<"a", "n", "n", "o", "t", "a", "t", "i", "o", "n", "s">>
K_shaderControls == <<"s", "h", "a", "d", "e", "r", "C", "o", "n", "t", "r", "o", "l", "s">>
K_normalized == <<"n", "o", "r", "m", "a", "l", "i", "z", "e", "d">>
K_range == <<"r", "a", "n", "g", "e">>
K_point == <<"p", "o", "i", "n", "t">>
K_id == <<"i", "d">>
K_size == <<"s", "i", "z", "e">>
K_center == <<"c", "e", "n", "t", "e", "r">>
K_radii == <<"r", "a", "d", "i", "i">>
K_pointA == <<"p", "o", "i", "n", "t", "A">>
K_pointB == <<"p", "o", "i", "n", "t", "B">>
K_x == <<"x">>
K_y == <<"y">>
K_z == <<"z">>
S_image == <<"i", "m", "a", "g", "e">>
S_segmentation == <<"s", "e", "g", "m", "e", "n", "t", "a", "t", "i", "o", "n">>
S_annotation == <<"a", "n", "n", "o", "t", "a", "t", "i", "o", "n">>
S_local_annotations == <<"l", "o", "c", "a", "l", ":", "/", "/", "a", "n", "n", "o", "t", "a", "t", "i", "o", "n", "s">>
S_annotatePoint == <<"a", "n", "n", "o", "t", "a", "t", "e", "P", "o", "i", "n", "t">>
S_default_color == <<"#", "c", "e", "c", "d", "1", "1">>
S_precomputed_example == <<"p", "r", "e", "c", "o", "m", "p", "u", "t", "e", "d", ":", "/", "/", "e", "x", "a", "m", "p", "l", "e">>
S_point == <<"p", "o", "i", "n", "t">>
S_box == <<"b", "o", "x">>
S_ellipsoid == <<"e", "l", "l", "i", "p", "s", "o", "i", "d">>
S_axis_aligned_bounding_box == <<"a", "x", "i", "s", "_", "a", "l", "i", "g", "n", "e", "d", "_", "b", "o", "u", "n", "d", "i", "n", "g", "_", "b", "o", "x">>
S_fit == <<"f", "i", "t">>
S_xy == <<"x", "y">>
S_3d == <<"3", "d">>
S_m == <<"m">>
S_annotations == <<"a", "n", "n", "o", "t", "a", "t", "i", "o", "n", "s">>

Ref(a) == [t |-> "ref", v |-> a]
Missing == [t |-> "missing", v |-> 0]

\* a new dict or list
New(h, cell) == [h |-> Append(h, cell), ref |-> Ref(Len(h) + 1)]

\* d.get(key) / key in d / d[key] = val / l.append(val), on the cell at a
HasKey(h, a, key) == \E i \in 1..Len(h[a].v) : h[a].v[i][1] = key
Get(h, a, key) == IF HasKey(h, a, key) THEN Member(h[a], key) ELSE Missing
SetItem(h, a, key, val) == [h EXCEPT ![a].v = PutMember(@, key, val)]
ListAppend(h, a, val) == [h EXCEPT ![a].v = Append(@, val)]
IsList(h, val) == val.t = "ref" /\ h[val.v].t = "arr"
IsDict(h, val) == val.t = "ref" /\ h[val.v].t = "obj"

\* the JSON value a reference stands for
RECURSIVE Deref(_, _)
Deref(h, val) ==
    IF val.t # "ref" THEN val
    ELSE LET cell == h[val.v] IN
         IF cell.t = "arr"
         THEN Arr([i \in 1..Len(cell.v) |-> Deref(h, cell.v[i])])
         ELSE Obj([i \in 1..Len(cell.v) |->
                      <<cell.v[i][1], Deref(h, cell.v[i][2])>>])

\* the cells reachable from a reference
RECURSIVE Reach(_, _)
Reach(h, val) ==
    IF val.t # "ref" THEN {}
    ELSE LET cell == h[val.v] IN
         {val.v} \cup
         UNION {Reach(h, IF cell.t = "arr" THEN cell.v[i] ELSE cell.v[i][2]) :
                   i \in 1..Len(cell.v)}

\* a JSON value built as new dicts and lists.  A value takes one cell per
\* dict or list in it; its own cell comes first, then those of its members
IsContainer(val) == val.t \in {"arr", "obj"}
Children(val) ==
    IF val.t = "arr" THEN val.v ELSE [i \in 1..Len(val.v) |-> val.v[i][2]]

RECURSIVE Size(_), SizeOfFirst(_, _)
Size(val) ==
    IF IsContainer(val) THEN 1 + SizeOfFirst(Children(val), Len(val.v)) ELSE 0

SizeOfFirst(vals, k) ==
    IF k = 0 THEN 0 ELSE SizeOfFirst(vals, k - 1) + Size(vals[k])

\* the reference to (or the scalar of) a value whose cells follow address base
RefAt(val, base) == IF IsContainer(val) THEN Ref(base + 1) ELSE val

RefsAll(vals, base) ==
    [i \in 1..Len(vals) |-> RefAt(vals[i], base + SizeOfFirst(vals, i - 1))]

RECURSIVE Cells(_, _), CellsAll(_, _, _)
Cells(val, base) ==
    IF ~IsContainer(val) THEN <<>>
    ELSE LET refs == RefsAll(Children(val), base + 1)
             cell == IF val.t = "arr" THEN Arr(refs)
                     ELSE Obj([i \in 1..Len(val.v) |-> <<val.v[i][1], refs[i]>>])
         IN  <<cell>> \o CellsAll(Children(val), base + 1, 1)

CellsAll(vals, base, i) ==
    IF i > Len(vals) THEN <<>>
    ELSE Cells(vals[i], base + SizeOfFirst(vals, i - 1)) \o CellsAll(vals, base, i + 1)

Alloc(h, val) == [h |-> h \o Cells(val, Len(h)), ref |-> RefAt(val, Len(h))]

\* several values built one after the other
AllocAll(h, vals) ==
    [h |-> h \o CellsAll(vals, Len(h), 1), vals |-> RefsAll(vals, Len(h))]

\* json.dumps(value) with the default separators ", " and ": "
RECURSIVE json_dumps_default(_), DumpItemsDefault(_), DumpMembersDefault(_)
json_dumps_default(val) ==
    CASE val.t = "num" -> NatToChars(val.v)
      [] val.t = "str" -> DumpString(val.v)
      [] val.t = "arr" -> <<"[">> \o DumpItemsDefault(val.v) \o <<"]">>
      [] val.t = "obj" -> <<"{">> \o DumpMembersDefault(val.v) \o <<"}">>
      [] val.t = "float" -> DumpFloat(val)
      [] val.t \in {"bool", "null"} -> DumpLiteral(val)

DumpItemsDefault(items) ==
    IF items = <<>> THEN <<>>
    ELSE json_dumps_default(Head(items)) \o
         (IF Len(items) > 1 THEN <<",", " ">> \o DumpItemsDefault(Tail(items))
          ELSE <<>>)

DumpMembersDefault(members) ==
    IF members = <<>> THEN <<>>
    ELSE DumpString(Head(members)[1]) \o <<":", " ">> \o
         json_dumps_default(Head(members)[2]) \o
         (IF Len(members) > 1 THEN <<",", " ">> \o DumpMembersDefault(Tail(members))
          ELSE <<>>)

\* a copy of the data dict alone: the nested dicts and lists are the same
\* objects
clone_shallow(h, d) == New(h, h[d])

\* NeuroglancerState(json.loads(json.dumps(self.data))): the new state's
\* data dict
clone(h, d) == Alloc(h, json_loads(json_dumps_default(Deref(h, Ref(d)))).val)


K_annotation_color ==
    <<"a", "n", "n", "o", "t", "a", "t", "i", "o", "n", "_", "c", "o", "l", "o", "r">>

ALLOWED_LAYER_TYPES == {S_image, S_segmentation, S_annotation}

Return(h) == [h |-> h, raised |-> FALSE]
Raise(h) == [h |-> h, raised |-> TRUE]

\* bool(value): the truth value of a Python object
bool(h, val) ==
    CASE val.t \in {"null", "missing"} -> FALSE
      [] val.t = "bool" -> val.v
      [] val.t = "str" -> val.v # <<>>
      [] val.t = "num" -> val.v # 0
      [] val.t = "float" -> val.v # 0 \/ val.f # <<>>
      [] val.t = "ref" -> h[val.v].v # <<>>

\* float(value): numbers, booleans and strings of digits convert, None and
\* any other string raise
float(val) ==
    CASE val.t = "num" -> [ok |-> TRUE, val |-> Float(val.v)]
      [] val.t = "float" -> [ok |-> TRUE, val |-> val]
      [] val.t = "bool" -> [ok |-> TRUE, val |-> Float(IF val.v THEN 1 ELSE 0)]
      [] val.t = "str" ->
            IF val.v # <<>> /\ \A i \in 1..Len(val.v) : IsDigit(val.v[i])
            THEN [ok |-> TRUE, val |-> Float(ParseDigits(val.v, 0).val.v)]
            ELSE [ok |-> FALSE, val |-> Null]
      [] OTHER -> [ok |-> FALSE, val |-> Null]

\* self.data.get("layers", []): the layer dicts, as references
Layers(h, d) ==
    IF HasKey(h, d, K_layers) THEN h[Get(h, d, K_layers).v].v ELSE <<>>

\* position in the layer list of the first layer called name, 0 when none
FirstNamed(h, d, name) ==
    LET ls == Layers(h, d)
        hits == {i \in 1..Len(ls) : Get(h, ls[i].v, K_name) = Str(name)}
    IN  IF hits = {} THEN 0 ELSE CHOOSE i \in hits : \A j \in hits : i <= j

\* the same among the layers of type annotation
FirstAnnotationNamed(h, d, name) ==
    LET ls == Layers(h, d)
        hits == {i \in 1..Len(ls) : /\ Get(h, ls[i].v, K_type) = Str(S_annotation)
                                    /\ Get(h, ls[i].v, K_name) = Str(name)}
    IN  IF hits = {} THEN 0 ELSE CHOOSE i \in hits : \A j \in hits : i <= j

\* set_view: a position of exactly four components keeps its fourth, any
\* other position becomes [x, y, z]; the orientation is looked at only in
\* the branch of a zoom other than "fit"
set_view(h, d, center, zoom, orientation) ==
    IF \E k \in {K_x, K_y, K_z} : \A i \in 1..Len(center.v) : center.v[i][1] # k
    THEN Raise(h)
    ELSE
    LET old_pos == Get(h, d, K_position)
        xyz == <<Member(center, K_x), Member(center, K_y), Member(center, K_z)>>
        pos == IF IsList(h, old_pos) /\ Len(h[old_pos.v].v) = 4
               THEN Append(xyz, h[old_pos.v].v[4])
               ELSE xyz
        list == New(h, Arr(pos))
        h1 == SetItem(list.h, d, K_position, list.ref)
        h2 == IF float(zoom).ok
              THEN SetItem(h1, d, K_crossSectionScale, float(zoom).val) ELSE h1
    IN  IF zoom = Str(S_fit)
        THEN Return(SetItem(h1, d, K_crossSectionScale, Float(1)))
        ELSE IF bool(h, orientation)
        THEN Return(SetItem(h2, d, K_layout, orientation))
        ELSE Return(h2)

\* L.setdefault(key, {}) on the dict at a: the heap and the value now there
SetDefault(h, a, key, cell) ==
    IF HasKey(h, a, key) THEN [h |-> h, ref |-> Get(h, a, key)]
    ELSE LET made == New(h, cell) IN
         [h |-> SetItem(made.h, a, key, made.ref), ref |-> made.ref]

\* set_lut: the first layer called layer_name gets
\* shaderControls.normalized.range = [vmin, vmax]
set_lut(h, d, layer_name, vmin, vmax) ==
    LET i == FirstNamed(h, d, layer_name) IN
    IF i = 0 THEN Return(h)
    ELSE LET L == Layers(h, d)[i].v
             sc == SetDefault(h, L, K_shaderControls, Obj(<<>>))
             norm == SetDefault(sc.h, sc.ref.v, K_normalized, Obj(<<>>))
             range == New(norm.h, Arr(<<vmin, vmax>>))
         IN  Return(SetItem(range.h, norm.ref.v, K_range, range.ref))

\* kwargs.pop(key, default) and what is left of kwargs
KwGet(kwargs, key, default) ==
    IF \E i \in 1..Len(kwargs) : kwargs[i][1] = key
    THEN kwargs[CHOOSE i \in 1..Len(kwargs) : kwargs[i][1] = key][2]
    ELSE default

KwWithout(kwargs, keys) == SelectSeq(kwargs, LAMBDA m : m[1] \notin keys)

RECURSIVE SetItems(_, _, _)
SetItems(h, a, members) ==
    IF members = <<>> THEN h
    ELSE SetItems(SetItem(h, a, Head(members)[1], Head(members)[2]), a, Tail(members))

\* add_layer without the check for a layer of that name
add_layer_always(h, d, name, layer_type, source, kwargs) ==
    IF layer_type \notin ALLOWED_LAYER_TYPES THEN Raise(h)
    ELSE
    LET color == KwGet(kwargs, K_annotationColor,
                       KwGet(kwargs, K_annotation_color, Null))
        src == IF source = Null THEN New(h, Obj(<< <<K_url, Str(S_local_annotations)>> >>))
               ELSE IF source.t = "str" THEN New(h, Obj(<< <<K_url, source>> >>))
               ELSE [h |-> h, ref |-> source]
        anns == New(src.h, Arr(<<>>))
        annotation ==
            New(anns.h,
                Obj(<< <<K_type, Str(layer_type)>>,
                       <<K_source, src.ref>>,
                       <<K_tool, KwGet(kwargs, K_tool, Str(S_annotatePoint))>>,
                       <<K_tab, KwGet(kwargs, K_tab, Str(S_annotations))>>,
                       <<K_annotationColor,
                         IF bool(h, color) THEN color ELSE Str(S_default_color)>>,
                       <<K_annotations, anns.ref>>,
                       <<K_name, Str(name)>> >>))
        other ==
            New(h,
                Obj(<< <<K_type, Str(layer_type)>>,
                       <<K_name, Str(name)>>,
                       <<K_source, IF source = Null THEN Str(S_precomputed_example)
                                   ELSE source>>,
                       <<K_visible, KwGet(kwargs, K_visible, Bool(TRUE))>> >>))
        layer == IF layer_type = S_annotation THEN annotation ELSE other
        rest == IF layer_type = S_annotation
                THEN KwWithout(kwargs, {K_annotationColor, K_annotation_color,
                                        K_tool, K_tab})
                ELSE KwWithout(kwargs, {K_visible})
        h1 == SetItems(layer.h, layer.ref.v, rest)
        list == SetDefault(h1, d, K_layers, Arr(<<>>))
    IN  Return(ListAppend(list.h, list.ref.v, layer.ref))

\* add_layer: ValueError for a type outside ALLOWED_LAYER_TYPES, nothing done
\* when a layer of that name exists, else the new layer dict is appended
add_layer(h, d, name, layer_type, source, kwargs) ==
    IF layer_type \notin ALLOWED_LAYER_TYPES THEN Raise(h)
    ELSE IF FirstNamed(h, d, name) # 0 THEN Return(h)
    ELSE
    LET color == KwGet(kwargs, K_annotationColor,
                       KwGet(kwargs, K_annotation_color, Null))
        src == IF source = Null THEN New(h, Obj(<< <<K_url, Str(S_local_annotations)>> >>))
               ELSE IF source.t = "str" THEN New(h, Obj(<< <<K_url, source>> >>))
               ELSE [h |-> h, ref |-> source]
        anns == New(src.h, Arr(<<>>))
        annotation ==
            New(anns.h,
                Obj(<< <<K_type, Str(layer_type)>>,
                       <<K_source, src.ref>>,
                       <<K_tool, KwGet(kwargs, K_tool, Str(S_annotatePoint))>>,
                       <<K_tab, KwGet(kwargs, K_tab, Str(S_annotations))>>,
                       <<K_annotationColor,
                         IF bool(h, color) THEN color ELSE Str(S_default_color)>>,
                       <<K_annotations, anns.ref>>,
                       <<K_name, Str(name)>> >>))
        other ==
            New(h,
                Obj(<< <<K_type, Str(layer_type)>>,
                       <<K_name, Str(name)>>,
                       <<K_source, IF source = Null THEN Str(S_precomputed_example)
                                   ELSE source>>,
                       <<K_visible, KwGet(kwargs, K_visible, Bool(TRUE))>> >>))
        layer == IF layer_type = S_annotation THEN annotation ELSE other
        rest == IF layer_type = S_annotation
                THEN KwWithout(kwargs, {K_annotationColor, K_annotation_color,
                                        K_tool, K_tab})
                ELSE KwWithout(kwargs, {K_visible})
        h1 == SetItems(layer.h, layer.ref.v, rest)
        list == SetDefault(h1, d, K_layers, Arr(<<>>))
    IN  Return(ListAppend(list.h, list.ref.v, layer.ref))

\* set_layer_visibility: the first layer called name gets visible = bool(visible)
set_layer_visibility(h, d, name, visible) ==
    LET i == FirstNamed(h, d, name) IN
    IF i = 0 THEN Return(h)
    ELSE Return(SetItem(h, Layers(h, d)[i].v, K_visible, Bool(bool(h, visible))))

\* list.extend(items)
RECURSIVE Extend(_, _, _)
Extend(h, a, items) ==
    IF items = <<>> THEN h ELSE Extend(ListAppend(h, a, Head(items)), a, Tail(items))

\* items.extend onto the annotations list of the first annotation layer
\* called layer; next() without a default raises StopIteration when there is
\* none
ExtendAnnotations(h, d, layer, items, list) == Return(Extend(list.h, list.ref.v, items))

AppendToLayer(h, d, layer, items, i) ==
    IF i = 0 THEN Raise(h)
    ELSE ExtendAnnotations(h, d, layer, items,
             SetDefault(h, Layers(h, d)[i].v, K_annotations, Arr(<<>>)))

\* add_annotations: the annotation layer called layer, made by add_layer when
\* there is none; the second next() has no default and raises StopIteration
\* when add_layer made no annotation layer of that name
AfterEnsuringLayer(h, d, layer, items) ==
    AppendToLayer(h, d, layer, items, FirstAnnotationNamed(h, d, layer))

add_annotations(h, d, layer, items) ==
    AfterEnsuringLayer(IF FirstAnnotationNamed(h, d, layer) = 0
                       THEN add_layer(h, d, layer, S_annotation, Null, <<>>).h
                       ELSE h,
                       d, layer, items)


-----------------------------------------------------------------------------
(* Tool handlers of main.py that append annotations.                       *)

\* x / 2, x - y and x + y on floats without a fractional part
Half(x) == [t |-> "float", v |-> x.v \div 2,
            f |-> IF x.v % 2 = 1 THEN <<"5">> ELSE <<>>]
Minus(x, y) == Float(x.v - y.v)
Plus(x, y) == Float(x.v + y.v)

\* t_add_annotations: one item dict per Annotation of args.items, each with
\* its type, then add_annotations on CURRENT_STATE.  a.size is None for an
\* Annotation sent without a size: a.size.x raises
t_add_annotations(h, d, layer, anns) ==
    LET Item(a) ==
            CASE a.type = S_point ->
                    Obj(<< <<K_point, Arr(<<a.center.x, a.center.y, a.center.z>>)>>,
                           <<K_type, Str(S_point)>>,
                           <<K_id, Null>> >>)
              [] a.type = S_box ->
                    Obj(<< <<K_type, Str(S_box)>>,
                           <<K_point, Arr(<<a.center.x, a.center.y, a.center.z>>)>>,
                           <<K_size, Arr(<<a.size.x, a.size.y, a.size.z>>)>>,
                           <<K_id, Null>> >>)
              [] a.type = S_ellipsoid ->
                    Obj(<< <<K_type, Str(S_ellipsoid)>>,
                           <<K_center, Arr(<<a.center.x, a.center.y, a.center.z>>)>>,
                           <<K_radii, Arr(<<Half(a.size.x), Half(a.size.y),
                                            Half(a.size.z)>>)>>,
                           <<K_id, Null>> >>)
    IN  IF \E i \in 1..Len(anns) : anns[i].type # S_point /\ anns[i].size = Null
        THEN Raise(h)
        ELSE LET items == AllocAll(h, [i \in 1..Len(anns) |-> Item(anns[i])])
             IN  add_annotations(items.h, d, layer, items.vals)

\* t_data_ng_annotations_from_data after the dataframe is loaded: the layer
\* is made or recoloured, one item per row, then add_annotations.  A row is
\* [center, size]; the id is the generated one.  Any exception is turned into
\* an error result by the handler
\* error: the handler returned {"error": ...}, either because no row gave an
\* item or from its except clause
HandlerResult(h, error) == [h |-> h, raised |-> FALSE, error |-> error]

FromDataAdded(out) == HandlerResult(out.h, out.raised)

FromDataAdd(items, d, layer_name) ==
    FromDataAdded(add_annotations(items.h, d, layer_name, items.vals))

FromDataItems(h, d, layer_name, values) ==
    IF values = <<>> THEN HandlerResult(h, TRUE)
    ELSE FromDataAdd(AllocAll(h, values), d, layer_name)

t_data_ng_annotations_from_data(h, d, layer_name, annotation_type, color, rows) ==
    LET found == FirstAnnotationNamed(h, d, layer_name)
        kwargs == << <<K_annotation_color, color>> >>
        h1 == IF found = 0
              THEN add_layer(h, d, layer_name, S_annotation, Null, kwargs).h
              ELSE IF bool(h, color)
              THEN SetItem(h, Layers(h, d)[found].v, K_annotationColor, color)
              ELSE h
        Item(row) ==
            CASE annotation_type = S_point ->
                    Obj(<< <<K_point, Arr(<<row.center.x, row.center.y, row.center.z>>)>>,
                           <<K_type, Str(S_point)>>,
                           <<K_id, Str(<<"u">>)>> >>)
              [] annotation_type = S_box ->
                    Obj(<< <<K_type, Str(S_axis_aligned_bounding_box)>>,
                           <<K_pointA, Arr(<<Minus(row.center.x, Half(row.size.x)),
                                             Minus(row.center.y, Half(row.size.y)),
                                             Minus(row.center.z, Half(row.size.z))>>)>>,
                           <<K_pointB, Arr(<<Plus(row.center.x, Half(row.size.x)),
                                             Plus(row.center.y, Half(row.size.y)),
                                             Plus(row.center.z, Half(row.size.z))>>)>>,
                           <<K_id, Str(<<"u">>)>> >>)
              [] annotation_type = S_ellipsoid ->
                    Obj(<< <<K_type, Str(S_ellipsoid)>>,
                           <<K_center, Arr(<<row.center.x, row.center.y, row.center.z>>)>>,
                           <<K_radii, Arr(<<Half(row.size.x), Half(row.size.y),
                                            Half(row.size.z)>>)>>,
                           <<K_id, Str(<<"u">>)>> >>)
    IN  FromDataItems(h1, d, layer_name, [i \in 1..Len(rows) |-> Item(rows[i])])

\* t_data_ng_views_table with annotations enabled and no lut: per row a
\* clone of CURRENT_STATE gets the view and one annotation (a point and an id,
\* no type); a row that raises is skipped; CURRENT_STATE becomes the state of
\* the first row that went through.  Returns the heap and the data dict of
\* CURRENT_STATE
AnnotateRow(state_copy, item) ==
    add_annotations(item.h, state_copy.ref.v, S_annotations, <<item.ref>>)

ViewRow(state_copy, row) ==
    AnnotateRow(state_copy,
        Alloc(set_view(state_copy.h, state_copy.ref.v,
                       Obj(<< <<K_x, row.center.x>>, <<K_y, row.center.y>>,
                              <<K_z, row.center.z>> >>),
                       Null, Null).h,
              Obj(<< <<K_point, Arr(<<row.center.x, row.center.y, row.center.z>>)>>,
                     <<K_id, Str(<<"0">>)>> >>)))

RECURSIVE ViewsTableRows(_, _, _, _)
ViewsTableRow(state_copy, added, d, rest, first_state) ==
    ViewsTableRows(added.h, d, Tail(rest),
                   IF ~added.raised /\ first_state = 0
                   THEN state_copy.ref.v ELSE first_state)

\* the statements run in order: the clone is made, then the row is applied
\* to it, then the next row is taken
ViewsTableClone(state_copy, d, rest, first_state) ==
    CHOOSE out \in {ViewsTableRow(state_copy, added, d, rest, first_state) :
                       added \in {ViewRow(state_copy, Head(rest))}} : TRUE

ViewsTableRows(heap, d, rest, first_state) ==
    IF rest = <<>> THEN [h |-> heap, d |-> first_state]
    ELSE CHOOSE out \in {ViewsTableClone(state_copy, d, rest, first_state) :
                            state_copy \in {clone(heap, d)}} : TRUE

ViewsTableDone(done, d) ==
    [h |-> done.h, d |-> IF done.d = 0 THEN d ELSE done.d, raised |-> FALSE]

t_data_ng_views_table(h, d, rows) == ViewsTableDone(ViewsTableRows(h, d, rows, 0), d)

-----------------------------------------------------------------------------
(* Calls of the mutators, of clone and of the annotation tools.            *)
(* cs = [h, s, c]: the heap, the data dict of CURRENT_STATE and the data   *)
(* dict of a clone of it (0 before clone is called).  cu records the       *)
(* latest call.                                                            *)

MaxOps == 2       \* calls made on the states
MaxAxes == 5      \* dimensions of the largest starting state

AxisNames == <<"x", "y", "z", "t", "c", "u", "v", "w">>
LayerNames == {<<"L">>, <<"M">>}
Vec3(x, y, z) == [x |-> Float(x), y |-> Float(y), z |-> Float(z)]
Centers == {Obj(<< <<K_x, Float(7)>>, <<K_y, Float(8)>>, <<K_z, Float(9)>> >>)}
Zooms == {Str(S_fit), Num(3)}
Orientations == {Null, Str(S_3d)}
LayerTypes == {S_image, S_annotation, <<"m", "e", "s", "h">>}
LayerOptions ==
    {[source |-> Null, kwargs |-> <<>>],
     [source |-> Str(<<"s">>), kwargs |-> << <<K_visible, Bool(FALSE)>> >>]}
PointItem ==
    Obj(<< <<K_point, Arr(<<Float(1), Float(2), Float(3)>>)>>,
           <<K_type, Str(S_point)>> >>)
UntypedItem == Obj(<< <<K_point, Arr(<<Float(1), Float(2), Float(3)>>)>> >>)
ItemLists == {<<PointItem>>, <<UntypedItem, PointItem>>}
AnnotationTypes == {S_point, S_box, S_ellipsoid}
Rows == <<[center |-> Vec3(7, 8, 9), size |-> Vec3(2, 4, 6)]>>

ImageLayer(name) ==
    Obj(<< <<K_type, Str(S_image)>>, <<K_name, Str(name)>>,
           <<K_source, Str(S_precomputed_example)>>, <<K_visible, Bool(TRUE)>> >>)

\* the state of NeuroglancerState.__init__ with n dimensions, a position of
\* n components and the given layers
StartState(n, layers) ==
    Obj(<< <<K_dimensions,
             Obj([i \in 1..n |-> <<(<<AxisNames[i]>>), Arr(<<Num(1), Str(S_m)>>)>>])>>,
           <<K_position, Arr([i \in 1..n |-> Num(IF i <= 3 THEN 0 ELSE 10 + i)])>>,
           <<K_crossSectionScale, Float(1)>>,
           <<K_projectionScale, Num(1024)>>,
           <<K_layers, Arr(layers)>>,
           <<K_layout, Str(S_xy)>> >>)

StartStates ==
    {StartState(n, <<>>) : n \in {3, 4, MaxAxes}} \cup {StartState(3, <<ImageLayer(<<"L">>)>>)}

InitMutators ==
    /\ pc = "mutators"
    /\ conversation = <<>>
    /\ RequestStart
    /\ StreamIdle
    /\ \E start \in StartStates :
          LET made == Alloc(<<>>, start) IN
          cs = [h |-> made.h, s |-> made.ref.v, c |-> 0]
    /\ cu = [n |-> 0, op |-> "none", on |-> "s", raised |-> FALSE, args |-> <<>>]

Targets == IF cs.c = 0 THEN {"s"} ELSE {"s", "c"}
Root(on) == IF on = "s" THEN cs.s ELSE cs.c

\* a call that leaves the heap out.h
Called(op, on, out, args) ==
    /\ pc = "mutators"
    /\ cu.n < MaxOps
    /\ cs' = [cs EXCEPT !.h = out.h]
    /\ cu' = [n |-> cu.n + 1, op |-> op, on |-> on, raised |-> out.raised,
              args |-> args]
    /\ UNCHANGED <<chatVars, streamVars>>

CallSetView ==
    \E on \in Targets, center \in Centers, zoom \in Zooms, orientation \in Orientations :
        Called("set_view", on, set_view(cs.h, Root(on), center, zoom, orientation),
               [zoom |-> zoom, orientation |-> orientation])

CallSetLut ==
    \E on \in Targets, name \in LayerNames :
        Called("set_lut", on, set_lut(cs.h, Root(on), name, Float(0), Float(5)),
               [name |-> name])

CallAddLayer ==
    \E on \in Targets, name \in LayerNames, type \in LayerTypes, opt \in LayerOptions :
        Called("add_layer", on,
               add_layer(cs.h, Root(on), name, type, opt.source, opt.kwargs),
               [name |-> name, type |-> type,
                existed |-> FirstNamed(cs.h, Root(on), name) # 0])

CallSetLayerVisibility ==
    \E on \in Targets, name \in LayerNames :
        Called("set_layer_visibility", on,
               set_layer_visibility(cs.h, Root(on), name, Num(0)),
               [name |-> name])

\* the caller builds the item dicts and hands them over
CallAddAnnotations ==
    \E on \in Targets, name \in LayerNames, items \in ItemLists :
        LET built == AllocAll(cs.h, items) IN
        Called("add_annotations", on,
               add_annotations(built.h, Root(on), name, built.vals),
               [name |-> name, items |-> items])

CallClone ==
    /\ pc = "mutators"
    /\ cu.n < MaxOps
    /\ cs.c = 0
    /\ LET copy == clone(cs.h, cs.s) IN
       cs' = [h |-> copy.h, s |-> cs.s, c |-> copy.ref.v]
    /\ cu' = [n |-> cu.n + 1, op |-> "clone", on |-> "s", raised |-> FALSE,
              args |-> <<>>]
    /\ UNCHANGED <<chatVars, streamVars>>

ToolAnnotationsAdd ==
    \E name \in LayerNames, type \in AnnotationTypes :
        Called("ng_annotations_add", "s",
               t_add_annotations(cs.h, cs.s, name,
                   <<[type |-> type, center |-> Rows[1].center, size |-> Rows[1].size]>>),
               [name |-> name, type |-> type])

ToolAnnotationsFromData ==
    \E name \in LayerNames, type \in AnnotationTypes :
        Called("data_ng_annotations_from_data", "s",
               t_data_ng_annotations_from_data(cs.h, cs.s, name, type, Null, Rows),
               [name |-> name, type |-> type])

ToolViewsTable ==
    /\ pc = "mutators"
    /\ cu.n < MaxOps
    /\ LET out == t_data_ng_views_table(cs.h, cs.s, Rows) IN
       cs' = [h |-> out.h, s |-> out.d, c |-> cs.c]
    /\ cu' = [n |-> cu.n + 1, op |-> "data_ng_views_table", on |-> "s",
              raised |-> FALSE, args |-> <<>>]
    /\ UNCHANGED <<chatVars, streamVars>>

NextMutators ==
    \/ CallSetView
    \/ CallSetLut
    \/ CallAddLayer
    \/ CallSetLayerVisibility
    \/ CallAddAnnotations
    \/ CallClone
    \/ ToolAnnotationsAdd
    \/ ToolAnnotationsFromData
    \/ ToolViewsTable

SpecMutators == InitMutators /\ [][NextMutators]_vars

\* a state as a JSON value
StateAt(c, on) == Deref(c.h, Ref(IF on = "s" THEN c.s ELSE c.c))
StateOf(on) == StateAt(cs, on)
LayersIn(state) ==
    IF \E i \in 1..Len(state.v) : state.v[i][1] = K_layers
    THEN Member(state, K_layers).v ELSE <<>>

MutatorsTypeOK == cs.s \in 1..Len(cs.h) /\ cs.c \in 0..Len(cs.h)


LayersNamed(state, name) ==
    {i \in 1..Len(LayersIn(state)) : Member(LayersIn(state)[i], K_name) = Str(name)}

\* the names of the layers of a state, read from its layer dicts
LayerNamesAt(c, on) ==
    [i \in 1..Len(Layers(c.h, IF on = "s" THEN c.s ELSE c.c)) |->
        Get(c.h, Layers(c.h, IF on = "s" THEN c.s ELSE c.c)[i].v, K_name)]

\* C15: after every call the layer names of each state are pairwise
\* distinct, and add_layer with the name of an existing layer leaves the
\* state it is called on as it was, whatever the type and the options
C15_UniqueLayerNames ==
    [][ /\ \A on \in {"s", "c"} :
             (on = "c" => cs'.c # 0) => Distinct(LayerNamesAt(cs', on))
        /\ (cu'.op = "add_layer" /\ cu'.args.existed) =>
               StateAt(cs', cu'.on) = StateAt(cs, cu'.on) ]_vars

\* add_layer("L", "annotation") called on a state where an earlier call had
\* made the annotation layer L: there is one layer L
C15_Witness ==
    /\ cu.op = "add_layer" /\ cu.on = "s" /\ cu.n = 2
    /\ cu.args.name = <<"L">> /\ cu.args.type = S_annotation /\ cu.args.existed
    /\ Cardinality(LayersNamed(StateOf("s"), <<"L">>)) = 1
    /\ Len(LayersIn(StateOf("s"))) = 1
    /\ Member(LayersIn(StateOf("s"))[1], K_type) = Str(S_annotation)
    /\ Member(LayersIn(StateOf("s"))[1], K_annotations) = Arr(<<>>)


PositionIn(state) == Member(state, K_position).v
DimensionsIn(state) == Member(state, K_dimensions).v

\* C16: set_view on a state whose position has one component per dimension
\* leaves it so: the first three components become the center, every later
\* component stays in place
C16_PositionKeepsItsLength ==
    [][ (cu'.op = "set_view"
           /\ Len(PositionIn(StateAt(cs, cu'.on)))
                 = Len(DimensionsIn(StateAt(cs, cu'.on)))) =>
        LET before == PositionIn(StateAt(cs, cu'.on))
            after == PositionIn(StateAt(cs', cu'.on))
        IN  /\ Len(after) = Len(DimensionsIn(StateAt(cs', cu'.on)))
            /\ SubSeq(after, 1, 3) = <<Float(7), Float(8), Float(9)>>
            /\ \A i \in 4..Len(before) : after[i] = before[i] ]_vars


\* C17: after set_view the crossSectionScale is 1.0 for the zoom "fit" and
\* the zoom as a float for a number, and the layout is the orientation
\* whenever one is given
C17_ZoomAndOrientation ==
    [][ cu'.op = "set_view" =>
        LET after == StateAt(cs', cu'.on) IN
        /\ Member(after, K_crossSectionScale) =
               (IF cu'.args.zoom = Str(S_fit) THEN Float(1)
                ELSE float(cu'.args.zoom).val)
        /\ cu'.args.orientation # Null =>
               Member(after, K_layout) = cu'.args.orientation ]_vars


AnnotationsOf(state, name) ==
    IF LayersNamed(state, name) = {} THEN <<>>
    ELSE Member(LayersIn(state)[CHOOSE i \in LayersNamed(state, name) : TRUE],
                K_annotations).v

\* C18: add_annotations(n, items) returns without raising; afterwards one
\* layer is called n, it is an annotation layer, its annotations are the
\* earlier ones followed by items, and every other layer is as it was
C18_AddAnnotationsAlwaysAppends ==
    [][ cu'.op = "add_annotations" =>
        LET before == StateAt(cs, cu'.on)
            after == StateAt(cs', cu'.on)
            n == cu'.args.name
        IN  /\ ~cu'.raised
            /\ Cardinality(LayersNamed(after, n)) = 1
            /\ \A i \in LayersNamed(after, n) :
                  Member(LayersIn(after)[i], K_type) = Str(S_annotation)
            /\ AnnotationsOf(after, n) = AnnotationsOf(before, n) \o cu'.args.items
            /\ \A i \in 1..Len(LayersIn(before)) :
                  i \notin LayersNamed(before, n) =>
                      LayersIn(after)[i] = LayersIn(before)[i] ]_vars


HasMember(obj, key) == \E i \in 1..Len(obj.v) : obj.v[i][1] = key

\* C19: every item of every annotations list of CURRENT_STATE has a type,
\* and it is point, box or ellipsoid
C19_AnnotationItemsTyped ==
    pc = "mutators" =>
        \A i \in 1..Len(LayersIn(StateOf("s"))) :
            LET layer == LayersIn(StateOf("s"))[i] IN
            HasMember(layer, K_annotations) =>
                \A k \in 1..Len(Member(layer, K_annotations).v) :
                    LET item == Member(layer, K_annotations).v[k] IN
                    /\ HasMember(item, K_type)
                    /\ Member(item, K_type) \in {Str(S_point), Str(S_box), Str(S_ellipsoid)}


\* C20: a state and its clone have no dict or list in common, a call on the
\* clone leaves the original as it was and a call on the original leaves the
\* clone as it was
C20_CloneIndependent ==
    [][ /\ cs'.c # 0 =>
              Reach(cs'.h, Ref(cs'.s)) \cap Reach(cs'.h, Ref(cs'.c)) = {}
        /\ (cs.c # 0 /\ cu'.on = "c") => StateAt(cs', "s") = StateAt(cs, "s")
        /\ (cs.c # 0 /\ cu'.on = "s") => StateAt(cs', "c") = StateAt(cs, "c") ]_vars

\* set_lut has been called on the clone of a state with the layer L: the
\* clone has the range, the original has not
C20_Witness ==
    /\ pc = "mutators" /\ cs.c # 0
    /\ cu.op = "set_lut" /\ cu.on = "c" /\ cu.args.name = <<"L">>
    /\ Len(LayersIn(StateOf("c"))) = 1
    /\ HasMember(LayersIn(StateOf("c"))[1], K_shaderControls)
    /\ ~HasMember(LayersIn(StateOf("s"))[1], K_shaderControls)


\* ---------------------------------------------------------------------------
\* from_url on the input forms of a state
\* ---------------------------------------------------------------------------

\* C21: for every valid state s, from_url returns s for the full URL, the
\* fragment with "#!" or "#", the percent-encoded JSON and the raw JSON text
\* of s, also when a string of s holds "#" or "%"
C21_EveryInputForm ==
    (pc = "codec" /\ cu.step = "form") =>
        /\ cu.decoded.ok
        /\ cu.decoded.val = cs


\* ---------------------------------------------------------------------------
\* _mask_ng_urls: viewer URLs of a text collapsed to markdown links.  A text
\* is a sequence of characters
\* ---------------------------------------------------------------------------

Whitespace == {" ", "\t", "\n"}

Least(S) == CHOOSE i \in S : \A j \in S : i <= j

\* text[i:].startswith(sub)
StartsAt(text, i, sub) ==
    /\ i + Len(sub) - 1 <= Len(text)
    /\ SubSeq(text, i, i + Len(sub) - 1) = sub

\* the positions at or after from where sub occurs in text
Occurrences(text, sub, from) ==
    {i \in from..(Len(text) - Len(sub) + 1) : SubSeq(text, i, i + Len(sub) - 1) = sub}

\* "sub in text"
Contains(text, sub) == Occurrences(text, sub, 1) # {}

\* str.replace(old, new): every occurrence, left to right, none overlapping
RECURSIVE str_replace(_, _, _)
ReplaceFirst(text, old, new, at) ==
    SubSeq(text, 1, at - 1) \o new
        \o str_replace(SubSeq(text, at + Len(old), Len(text)), old, new)

str_replace(text, old, new) ==
    IF Occurrences(text, old, 1) = {} THEN text
    ELSE ReplaceFirst(text, old, new, Least(Occurrences(text, old, 1)))

S_http ==
    <<"h", "t", "t", "p", ":", "/", "/">>
S_https ==
    <<"h", "t", "t", "p", "s", ":", "/", "/">>
S_word_http ==
    <<"h", "t", "t", "p">>
S_neuroglancer ==
    <<"n", "e", "u", "r", "o", "g", "l", "a", "n", "c", "e", "r">>
S_fragment_start ==
    <<"#", "!", "%", "7", "B">>
S_view_link ==
    <<"[", "v", "i", "e", "w", "]", "(">>
S_label ==
    <<"U", "p", "d", "a", "t", "e", "d", " ", "N", "e", "u", "r", "o",
      "g", "l", "a", "n", "c", "e", "r", " ", "v", "i", "e", "w">>

\* characters the scheme of "https?://" takes at i, 0 when there is none
SchemeLen(text, i) ==
    IF StartsAt(text, i, S_http) THEN Len(S_http)
    ELSE IF StartsAt(text, i, S_https) THEN Len(S_https)
    ELSE 0

\* the last position of the longest run from i of characters not in stop
RunEnd(text, i, stop) ==
    IF \E j \in i..Len(text) : text[j] \in stop
    THEN Least({j \in i..Len(text) : text[j] \in stop}) - 1
    ELSE Len(text)

\* r"https?://[^\s)]+" matches at i
UrlAt(text, i) ==
    /\ SchemeLen(text, i) > 0
    /\ i + SchemeLen(text, i) <= Len(text)
    /\ text[i + SchemeLen(text, i)] \notin Whitespace \cup {")"}

\* url_pattern.findall(text): the matches from left to right, none
\* overlapping
RECURSIVE FindAllFrom(_, _)
MatchFrom(text, i, end) == <<SubSeq(text, i, end)>> \o FindAllFrom(text, end + 1)

FirstMatch(text, i) ==
    MatchFrom(text, i, RunEnd(text, i + SchemeLen(text, i), Whitespace \cup {")"}))

FindAllFrom(text, from) ==
    IF \E i \in from..Len(text) : UrlAt(text, i)
    THEN FirstMatch(text, Least({i \in from..Len(text) : UrlAt(text, i)}))
    ELSE <<>>

\* re.split(r"\s+", text) without the empty strings
RECURSIVE SplitFrom(_, _)
TokenFrom(text, i, end) == <<SubSeq(text, i, end)>> \o SplitFrom(text, end + 1)

SplitFrom(text, from) ==
    IF \E i \in from..Len(text) : text[i] \notin Whitespace
    THEN TokenFrom(text, Least({i \in from..Len(text) : text[i] \notin Whitespace}),
                   RunEnd(text, Least({i \in from..Len(text) : text[i] \notin Whitespace}),
                          Whitespace))
    ELSE <<>>

\* r"\|\s*\[view\]\(https?://[^\)]+\)\s*\|" matches at i
AfterSpaces(text, i) ==
    IF \E j \in i..Len(text) : text[j] \notin Whitespace
    THEN Least({j \in i..Len(text) : text[j] \notin Whitespace})
    ELSE Len(text) + 1

TableLinkTail(text, close) ==
    /\ close <= Len(text)
    /\ AfterSpaces(text, close + 1) <= Len(text)
    /\ text[AfterSpaces(text, close + 1)] = "|"

TableLinkUrl(text, u) ==
    /\ SchemeLen(text, u) > 0
    /\ u + SchemeLen(text, u) <= Len(text)
    /\ text[u + SchemeLen(text, u)] # ")"
    /\ TableLinkTail(text, RunEnd(text, u + SchemeLen(text, u), {")"}) + 1)

TableLinkAt(text, i) ==
    /\ text[i] = "|"
    /\ StartsAt(text, AfterSpaces(text, i + 1), S_view_link)
    /\ TableLinkUrl(text, AfterSpaces(text, i + 1) + Len(S_view_link))

HasTableLink(text) == \E i \in 1..Len(text) : TableLinkAt(text, i)

\* the tokens appended for URLs without a scheme
IsBareUrl(tok) ==
    /\ Contains(tok, S_neuroglancer)
    /\ Contains(tok, S_fragment_start)
    /\ ~Contains(tok, S_word_http)

BareUrls(text) ==
    IF Contains(text, S_neuroglancer) /\ Contains(text, S_fragment_start)
    THEN SelectSeq(SplitFrom(text, 1), IsBareUrl)
    ELSE <<>>

IsViewerUrl(u) == Contains(u, S_neuroglancer)

\* ordered: the first occurrence of each element kept
Ordered(urls) ==
    LET firsts == {i \in 1..Len(urls) : \A j \in 1..(i - 1) : urls[j] # urls[i]}
        Place[k \in 0..Len(urls)] ==
            IF k = 0 THEN <<>>
            ELSE IF k \in firsts THEN Append(Place[k - 1], urls[k])
            ELSE Place[k - 1]
    IN  Place[Len(urls)]

\* label_map[u] for the URL at position idx + 1 of ordered
Label(idx) ==
    IF idx = 0 THEN S_label
    ELSE S_label \o <<" ", "(">> \o <<Digits[idx + 2]>> \o <<")">>

MarkdownLink(idx, u) == <<"[">> \o Label(idx) \o <<"]", "(">> \o u \o <<")">>

\* "for raw_url, repl in label_map.items(): text = text.replace(raw_url, repl)"
RECURSIVE ReplaceAll(_, _, _)
ReplaceAll(text, ordered, k) ==
    IF k > Len(ordered) THEN text
    ELSE ReplaceAll(str_replace(text, ordered[k], MarkdownLink(k - 1, ordered[k])),
                    ordered, k + 1)

MaskUrls(text, urls) ==
    IF urls = <<>> THEN text ELSE ReplaceAll(text, Ordered(urls), 1)

_mask_ng_urls(text) ==
    IF HasTableLink(text) THEN text
    ELSE MaskUrls(text, SelectSeq(FindAllFrom(text, 1), IsViewerUrl) \o BareUrls(text))

\* ---------------------------------------------------------------------------
\* Texts given to _mask_ng_urls: up to MaxTokens tokens joined by spaces.  cs
\* is the token list; cu records the text, _mask_ng_urls(text) and
\* _mask_ng_urls of that
\* ---------------------------------------------------------------------------

MaxTokens == 3    \* tokens of a text

U_first ==
    <<"h", "t", "t", "p", "s", ":", "/", "/", "n", "e", "u", "r", "o",
      "g", "l", "a", "n", "c", "e", "r", "/", "#", "!", "%", "7", "B",
      "1">>
\* U_first is a prefix of U_longer
U_longer == U_first \o <<"2">>
U_plain ==
    <<"h", "t", "t", "p", ":", "/", "/", "n", "e", "u", "r", "o", "g",
      "l", "a", "n", "c", "e", "r", "/", "v">>
U_bare ==
    <<"n", "e", "u", "r", "o", "g", "l", "a", "n", "c", "e", "r", "/",
      "#", "!", "%", "7", "B", "3">>
U_other ==
    <<"h", "t", "t", "p", ":", "/", "/", "x", ".", "o", "r", "g", "/">>
W_see == <<"s", "e", "e">>
\* a markdown link to U_first
W_link == <<"[", "v", "]", "(">> \o U_first \o <<")">>
\* a table cell with a [view] link
W_cell == <<"|", " ">> \o S_view_link \o U_first \o <<")", " ", "|">>

ViewerUrls == {U_first, U_longer, U_plain, U_bare}
MaskTokens == ViewerUrls \cup {U_other, W_see, W_link, W_cell}

RECURSIVE JoinTokens(_)
JoinTokens(tokens) ==
    IF tokens = <<>> THEN <<>>
    ELSE IF Len(tokens) = 1 THEN tokens[1]
    ELSE tokens[1] \o <<" ">> \o JoinTokens(Tail(tokens))

InitMask ==
    /\ pc = "mask"
    /\ conversation = <<>>
    /\ RequestStart
    /\ StreamIdle
    /\ cs \in SeqsUpTo(MaskTokens, MaxTokens)
    /\ cu = [step |-> "start", text |-> JoinTokens(cs), masked |-> <<>>, again |-> <<>>]

\* masked = _mask_ng_urls(text)
MaskText ==
    /\ pc = "mask" /\ cu.step = "start"
    /\ cu' = [cu EXCEPT !.step = "masked", !.masked = _mask_ng_urls(cu.text)]
    /\ UNCHANGED <<cs, chatVars, streamVars>>

\* _mask_ng_urls(masked)
MaskAgain ==
    /\ pc = "mask" /\ cu.step = "masked"
    /\ cu' = [cu EXCEPT !.step = "again", !.again = _mask_ng_urls(cu.masked)]
    /\ UNCHANGED <<cs, chatVars, streamVars>>

NextMask == MaskText \/ MaskAgain

SpecMask == InitMask /\ [][NextMask]_vars

\* the viewer URLs of a token list in order of first appearance
IsViewerToken(token) == token \in ViewerUrls

UrlsInOrder(tokens) == Ordered(SelectSeq(tokens, IsViewerToken))

\* the text the masking is to give for a list of words and URLs: the k-th
\* distinct viewer URL replaced by its link wherever it stands
Indexof(seq, x) == CHOOSE k \in 1..Len(seq) : seq[k] = x

MaskedTokens(tokens) ==
    [i \in 1..Len(tokens) |->
        IF tokens[i] \in ViewerUrls
        THEN MarkdownLink(Indexof(UrlsInOrder(tokens), tokens[i]) - 1, tokens[i])
        ELSE tokens[i]]

PlainText(tokens) == \A i \in 1..Len(tokens) : tokens[i] \in ViewerUrls \cup {U_other, W_see}

\* C22: in a text of words and URLs every occurrence of the k-th distinct
\* viewer URL, in order of first appearance, is replaced by a markdown link to
\* exactly that URL labelled "Updated Neuroglancer view" for k = 1 and
\* "Updated Neuroglancer view (k)" for k > 1, also when one URL is a prefix of
\* another or has no scheme
C22_EveryUrlLabelled ==
    (pc = "mask" /\ cu.step # "start" /\ PlainText(cs)) =>
        cu.masked = JoinTokens(MaskedTokens(cs))

\* C23: a URL that is already the target of a markdown link is not wrapped
\* again, so such links come out unchanged and masking a masked text changes
\* nothing
C23_MaskingIdempotent ==
    /\ (pc = "mask" /\ cu.step # "start" /\ \A i \in 1..Len(cs) : cs[i] \in {W_see, W_link})
          => cu.masked = cu.text
    /\ (pc = "mask" /\ cu.step = "again") => cu.again = cu.masked


\* ---------------------------------------------------------------------------
\* pointer_expansion: fragments that hold a state inline or point to one
\* ---------------------------------------------------------------------------

S_hashbang == <<"#", "!">>
K_ng_link == <<"n", "g", "_", "l", "i", "n", "k">>

\* _is_probably_json
_is_probably_json(text) ==
    /\ Strip(text) # <<>>
    /\ Head(Strip(text)) = "{"
    /\ Strip(text)[Len(Strip(text))] = "}"

_percent_decode(fragment) == unquote(fragment)

\* urllib.parse.quote(raw, safe="!~*'()")
PointerSafeChars == SafeChars \cup {"!", "~", "*", "'", "(", ")"}

RECURSIVE QuoteKeeping(_, _)
QuoteKeeping(s, safe) ==
    IF s = <<>> THEN <<>>
    ELSE IF Len(s) = 1 THEN (IF s[1] \in safe THEN s ELSE PercentCode(s[1]))
    ELSE QuoteKeeping(SubSeq(s, 1, Len(s) \div 2), safe)
         \o QuoteKeeping(SubSeq(s, (Len(s) \div 2) + 1, Len(s)), safe)

_percent_encode_minified(obj) == QuoteKeeping(json_dumps(obj), PointerSafeChars)

\* a fetcher, default or injected, seen from its caller: it raises or it
\* returns a text
FetchRaises == [raises |-> TRUE, text |-> <<>>]
FetchReturns(text) == [raises |-> FALSE, text |-> text]

\* what resolve_neuroglancer_pointer does: it returns (state, was_pointer) or
\* raises a ValueError whose message quotes named; fetched lists the URLs
\* the fetcher was called with
Resolved(state, was_pointer, fetched) ==
    [ok |-> TRUE, state |-> state, was_pointer |-> was_pointer, fetched |-> fetched,
     error |-> "none", named |-> <<>>]

ResolveRaised(named, fetched) ==
    [ok |-> FALSE, state |-> Null, was_pointer |-> FALSE, fetched |-> fetched,
     error |-> "ValueError", named |-> named]

ResolveInline(loaded) ==
    IF loaded.ok THEN Resolved(loaded.val, FALSE, <<>>) ELSE ResolveRaised(<<>>, <<>>)

ResolveFetched(decoded, loaded) ==
    IF loaded.ok THEN Resolved(loaded.val, TRUE, <<decoded>>)
    ELSE ResolveRaised(decoded, <<decoded>>)

ResolveDecoded(decoded, fetcher) ==
    IF _is_probably_json(decoded) THEN ResolveInline(json_loads(decoded))
    ELSE IF fetcher.raises THEN ResolveRaised(decoded, <<decoded>>)
    ELSE ResolveFetched(decoded, json_loads(fetcher.text))

resolve_neuroglancer_pointer(fragment, fetcher) ==
    ResolveDecoded(_percent_decode(fragment), fetcher)

\* dict(state): a dict is copied, a list of [key, value] pairs becomes a
\* dict, any other value raises
IsPair(item) == item.t = "arr" /\ Len(item.v) = 2 /\ item.v[1].t = "str"

DictRaises(state) ==
    CASE state.t = "obj" -> FALSE
      [] state.t = "arr" -> \E i \in 1..Len(state.v) : ~IsPair(state.v[i])
      [] OTHER -> TRUE

RECURSIVE PairsToMembers(_, _)
PairsToMembers(items, acc) ==
    IF items = <<>> THEN acc
    ELSE PairsToMembers(Tail(items), PutMember(acc, Head(items).v[1].v, Head(items).v[2]))

DictOf(state) ==
    IF state.t = "obj" THEN state.v ELSE PairsToMembers(state.v, <<>>)

\* state.pop('ng_link', None)
IsNotNgLink(member) == member[1] # K_ng_link

WithoutNgLink(members) == SelectSeq(members, IsNotNgLink)

\* viewer_base_url.rstrip('/')
RECURSIVE RStripSlash(_)
RStripSlash(s) ==
    IF s # <<>> /\ s[Len(s)] = "/" THEN RStripSlash(SubSeq(s, 1, Len(s) - 1)) ELSE s

neuroglancer_state_to_url(state, viewer_base_url) ==
    IF DictRaises(state) THEN UrlRaised
    ELSE [ok |-> TRUE,
          url |-> RStripSlash(viewer_base_url) \o <<"/">> \o S_hashbang
                    \o _percent_encode_minified(Obj(WithoutNgLink(DictOf(state))))]

\* full_url.split('#!', 1) and full_url.lstrip('#!')
RECURSIVE LStripHashBang(_)
LStripHashBang(s) ==
    IF s # <<>> /\ Head(s) \in {"#", "!"} THEN LStripHashBang(Tail(s)) ELSE s

BaseOf(full_url) ==
    IF Contains(full_url, S_hashbang)
    THEN SubSeq(full_url, 1, Least(Occurrences(full_url, S_hashbang, 1)) - 1)
    ELSE <<>>

FragmentOf(full_url) ==
    IF Contains(full_url, S_hashbang)
    THEN SubSeq(full_url, Least(Occurrences(full_url, S_hashbang, 1)) + 2, Len(full_url))
    ELSE LStripHashBang(full_url)

\* what expand_if_pointer_and_generate_inline does: it returns (canonical,
\* state, was_pointer) or raises
Expanded(resolved, canonical) ==
    [ok |-> resolved.ok /\ canonical.ok,
     canonical |-> canonical.url,
     state |-> resolved.state,
     was_pointer |-> resolved.was_pointer,
     fetched |-> resolved.fetched]

ExpandResolved(resolved, base) ==
    Expanded(resolved,
             IF resolved.ok
             THEN neuroglancer_state_to_url(resolved.state,
                                            IF base = <<>> THEN NEURO_BASE ELSE base)
             ELSE UrlRaised)

expand_if_pointer_and_generate_inline(full_url, fetcher) ==
    ExpandResolved(resolve_neuroglancer_pointer(FragmentOf(full_url), fetcher),
                   BaseOf(full_url))

is_pointer_url(url) ==
    IF ~Contains(url, S_hashbang) THEN FALSE
    ELSE ~_is_probably_json(_percent_decode(FragmentOf(url)))

\* ---------------------------------------------------------------------------
\* Inputs of the pointer functions.  cs holds the input text, how it was
\* built and what the fetcher does when called; cu records what the function
\* applied to the input returned
\* ---------------------------------------------------------------------------

\* string values of the states: empty, with "#!", with percent escapes
PointerStrings == {<<>>, <<"#", "!">>, <<"%", "2", "2">>, <<"%", "4", "1">>}

PointerStates ==
    {Obj(<< <<K_layout, Str(v)>> >>) : v \in PointerStrings}
    \cup {Obj(<< <<K_ng_link, Str(<<"p">>)>>, <<K_layout, Str(v)>> >>) : v \in PointerStrings}

P_s3 == <<"s", "3", ":", "/", "/", "b", "/", "k">>
P_gs == <<"g", "s", ":", "/", "/", "b", "/", "k">>
P_https == <<"h", "t", "t", "p", "s", ":", "/", "/", "o", "/", "k">>
PointerUrls == {P_s3, P_gs, P_https}

\* text in braces that is not JSON
T_braces == <<"{", "x", "}">>
T_not_json == <<"n", "o">>
T_pairs == <<"[", "[", "\"", "a", "\"", ",", "1", "]", "]">>
T_base == <<"h", "t", "t", "p", "s", ":", "/", "/", "v">>

\* the fragments: kind, the state held inline (Null when none), the text
Fragments ==
    {[kind |-> "encoded", state |-> s, text |-> _percent_encode_minified(s)] : s \in PointerStates}
    \cup {[kind |-> "raw", state |-> s, text |-> json_dumps(s)] : s \in PointerStates}
    \cup {[kind |-> "pointer", state |-> Null, text |-> u] : u \in PointerUrls}
    \cup {[kind |-> "braces", state |-> Null, text |-> T_braces]}

\* a fragment alone, or after the viewer's address and "#!"
Wraps == {"bare", "url"}

Wrapped(wrap, text) ==
    IF wrap = "url" THEN T_base \o <<"/">> \o S_hashbang \o text ELSE text

Fetchers ==
    {FetchRaises, FetchReturns(T_not_json), FetchReturns(T_pairs)}
    \cup {FetchReturns(json_dumps(s)) : s \in PointerStates}

PointerStart(result) == [step |-> "start", result |-> result, first |-> result]

InitPointer ==
    /\ pc = "pointer"
    /\ conversation = <<>>
    /\ RequestStart
    /\ StreamIdle
    /\ \E f \in Fragments, wrap \in Wraps, fetcher \in Fetchers :
          cs = [kind |-> f.kind, state |-> f.state, wrap |-> wrap,
                input |-> Wrapped(wrap, f.text), fetcher |-> fetcher]
    /\ cu = PointerStart(ResolveRaised(<<>>, <<>>))

\* resolve_neuroglancer_pointer(input, fetcher)
PointerResolve ==
    /\ pc = "pointer" /\ cu.step = "start"
    /\ cu' = [cu EXCEPT !.step = "resolved",
                        !.result = resolve_neuroglancer_pointer(cs.input, cs.fetcher)]
    /\ UNCHANGED <<cs, chatVars, streamVars>>

\* is_pointer_url(input)
PointerCheck ==
    /\ pc = "pointer" /\ cu.step = "start"
    /\ cu' = [cu EXCEPT !.step = "checked", !.result = is_pointer_url(cs.input)]
    /\ UNCHANGED <<cs, chatVars, streamVars>>

\* expand_if_pointer_and_generate_inline(input, fetcher)
PointerExpand ==
    /\ pc = "pointer" /\ cu.step = "start"
    /\ cu' = [cu EXCEPT !.step = "expanded",
                        !.result = expand_if_pointer_and_generate_inline(cs.input, cs.fetcher)]
    /\ UNCHANGED <<cs, chatVars, streamVars>>

\* expand_if_pointer_and_generate_inline(canonical, fetcher) on the URL the
\* first expansion returned
PointerExpandAgain ==
    /\ pc = "pointer" /\ cu.step = "expanded"
    /\ cu.result.ok
    /\ cu' = [step |-> "again", first |-> cu.result,
              result |-> expand_if_pointer_and_generate_inline(cu.result.canonical,
                                                               cs.fetcher)]
    /\ UNCHANGED <<cs, chatVars, streamVars>>

NextPointer ==
    \/ PointerResolve
    \/ PointerCheck
    \/ PointerExpand
    \/ PointerExpandAgain

SpecPointer == InitPointer /\ [][NextPointer]_vars

\* C24: resolve_neuroglancer_pointer on inline JSON, raw or percent-encoded,
\* alone or inside a URL, returns wasPointer = false and exactly the object
\* the JSON denotes, and the fetcher is never called
C24_InlineNeverFetches ==
    (pc = "pointer" /\ cu.step = "resolved" /\ cs.kind \in {"encoded", "raw"}) =>
        /\ cu.result.ok
        /\ ~cu.result.was_pointer
        /\ cu.result.state = cs.state
        /\ cu.result.fetched = <<>>

\* C25: is_pointer_url(x) is true iff the percent-decoded fragment of x does
\* not parse as a JSON object, for a full URL and for a bare fragment
C25_PointerIffNotJsonObject ==
    (pc = "pointer" /\ cu.step = "checked") =>
        (cu.result <=>
            ~(/\ json_loads(unquote(FragmentOf(cs.input))).ok
              /\ json_loads(unquote(FragmentOf(cs.input))).val.t = "obj"))

\* C26: when resolving fails, because the fetch fails or because the fetched
\* or the inline text is not JSON, one ValueError is raised whose message
\* names the offending URL, and no state is returned; a returned state is the
\* complete parse of the text
C26_FailureIsWrapped ==
    (pc = "pointer" /\ cu.step = "resolved") =>
        /\ ~cu.result.ok =>
              /\ cu.result.error = "ValueError"
              /\ cu.result.named # <<>>
              /\ Contains(cs.input, cu.result.named) \/ cu.result.named = unquote(cs.input)
              /\ cu.result.state = Null
        /\ cu.result.ok =>
              \/ json_loads(unquote(cs.input)) = [ok |-> TRUE, val |-> cu.result.state]
              \/ /\ ~cs.fetcher.raises
                 /\ json_loads(cs.fetcher.text) = [ok |-> TRUE, val |-> cu.result.state]

\* C27: when expand_if_pointer_and_generate_inline(u) returns (c, state,
\* wasPointer), expanding c fetches nothing and returns (c, state', false)
\* with state' equal to state
C27_ExpansionFixedPoint ==
    (pc = "pointer" /\ cu.step = "again") =>
        /\ cu.result.ok
        /\ cu.result.fetched = <<>>
        /\ cu.result.canonical = cu.first.canonical
        /\ ~cu.result.was_pointer
        /\ cu.result.state = cu.first.state


-----------------------------------------------------------------------------
(* The tool calls of one chat request on CURRENT_STATE.                    *)
(* cs = [h, s, c]: the heap and the data dict of CURRENT_STATE (c stays    *)
(* 0).  cu = [n, name, error, unknown, mutated, links, start]: the number  *)
(* of tool calls of the request so far; the name of the latest one,        *)
(* whether its result is an error result and whether it is the "Unknown    *)
(* tool" result; overall_mutated of the request; the links the latest call *)
(* made; the state at the start of the request.                            *)

MaxDispatches == 2    \* tool calls of one request

\* the names of the tool catalog
TOOLS ==
    {"ng_set_view", "ng_add_layer", "ng_set_layer_visibility",
     "ng_set_viewer_settings", "ng_set_lut", "ng_annotations_add",
     "data_plot_histogram", "data_ingest_csv_rois", "data_list_files",
     "data_ng_views_table", "data_ng_annotations_from_data", "data_info",
     "data_preview", "data_describe", "data_list_summaries",
     "data_query_polars", "data_plot", "data_list_plots"}

\* the names _execute_tool_by_name has a branch for
DispatchedNames ==
    {"ng_set_view", "ng_set_lut", "ng_add_layer", "ng_set_layer_visibility",
     "ng_annotations_add", "data_plot_histogram", "data_ingest_csv_rois",
     "state_save", "state_load", "ng_state_summary", "ng_state_link",
     "data_list_files", "data_info", "data_preview", "data_describe",
     "data_list_summaries", "data_query_polars", "data_plot",
     "data_ng_views_table", "data_ng_annotations_from_data", "data_list_plots"}

\* the names whose handlers assign CURRENT_STATE or call one of its mutators
StateWriters ==
    {"ng_set_view", "ng_set_lut", "ng_add_layer", "ng_set_layer_visibility",
     "ng_annotations_add", "state_load", "data_ng_views_table",
     "data_ng_annotations_from_data"}

\* the names dispatched without a handler that writes CURRENT_STATE: the
\* handlers that read it or leave it alone, the names without a branch, and
\* a name the model made up
OtherNames ==
    ((TOOLS \cup MUTATING_TOOLS \cup DispatchedNames \cup {"no_such_tool"})
        \ StateWriters) \ {"data_query_polars"}

\* a row whose x is null
NullRow == [center |-> [x |-> Null, y |-> Float(8), z |-> Float(9)], size |-> Null]
\* the rows of the dataframe a tool reads: one row, or none (a file with a
\* header only, a filter_expression that keeps no row)
RowLists == {Rows, <<>>}
LinkRowLists == {Rows, <<NullRow>> \o Rows}
Colors == {Null, Str(<<"r", "e", "d">>)}
\* the states a link is loaded from, and a link that is no JSON
LoadLinks ==
    {InputForm("url", Obj(<< <<K_layout, Str(S_3d)>> >>)), <<"#", "!", "{">>}

\* one row of _generate_ng_links_for_rows on the clone state_copy: the view is
\* set on it and its URL is the link
LinkOfClone(viewed, state_copy) ==
    [h |-> viewed.h, link |-> to_url(Deref(viewed.h, Ref(state_copy))).url]

LinkOnClone(state_copy, row) ==
    LinkOfClone(set_view(state_copy.h, state_copy.ref.v,
                         Obj(<< <<K_x, row.center.x>>, <<K_y, row.center.y>>,
                                <<K_z, row.center.z>> >>),
                         Null, Null),
                state_copy.ref.v)

\* the same row with the view set on CURRENT_STATE itself
LinkForRowInPlace(h, d, row) ==
    LinkOfClone(set_view(h, d,
                         Obj(<< <<K_x, row.center.x>>, <<K_y, row.center.y>>,
                                <<K_z, row.center.z>> >>),
                         Null, Null),
                d)

LinkForRow(h, d, row) == LinkOnClone(clone(h, d), row)

\* _generate_ng_links_for_rows: per row "" when a coordinate is null, else
\* the URL of a clone of CURRENT_STATE with the view at the row
RECURSIVE _generate_ng_links_for_rows(_, _, _)
LinksAfter(made, d, rest) ==
    LET later == _generate_ng_links_for_rows(made.h, d, rest) IN
    [h |-> later.h, links |-> <<made.link>> \o later.links]

_generate_ng_links_for_rows(h, d, rows) ==
    IF rows = <<>> THEN [h |-> h, links |-> <<>>]
    ELSE IF Null \in {Head(rows).center.x, Head(rows).center.y, Head(rows).center.z}
    THEN LinksAfter([h |-> h, link |-> <<>>], d, Tail(rows))
    ELSE LinksAfter(LinkForRow(h, d, Head(rows)), d, Tail(rows))

IsLink(link) == link # <<>>

\* t_state_load: CURRENT_STATE becomes a new state made of the parsed link;
\* an exception of from_url gives {"ok": False, "error": ...}
StateLoaded(h, d, parsed) ==
    IF parsed.ok
    THEN LET made == Alloc(h, parsed.val) IN [h |-> made.h, d |-> made.ref.v, error |-> FALSE]
    ELSE [h |-> h, d |-> d, error |-> TRUE]

StateLoad(h, d, link) == StateLoaded(h, d, from_url(link))

\* CURRENT_STATE when the request comes in
DispatchStarts == {StartState(4, <<>>), StartState(3, <<ImageLayer(<<"L">>)>>)}

InitDispatch ==
    /\ pc = "dispatch"
    /\ conversation = <<>>
    /\ RequestStart
    /\ StreamIdle
    /\ \E start \in DispatchStarts :
          LET made == Alloc(<<>>, start) IN
          /\ cs = [h |-> made.h, s |-> made.ref.v, c |-> 0]
          /\ cu = [n |-> 0, name |-> "none", error |-> FALSE, unknown |-> FALSE,
                   mutated |-> FALSE, links |-> 0, start |-> start]

\* one tool call of the chat loop: _execute_tool_by_name(name, args) left
\* the heap h and CURRENT_STATE at s, then overall_mutated is updated
Dispatched(name, h, s, error, links) ==
    /\ pc = "dispatch"
    /\ cu.n < MaxDispatches
    /\ cs' = [h |-> h, s |-> s, c |-> 0]
    /\ cu' = [cu EXCEPT !.n = @ + 1, !.name = name, !.error = error,
                        !.unknown = name \notin DispatchedNames,
                        !.mutated = @ \/ is_mutating_tool(name),
                        !.links = links]
    /\ UNCHANGED <<chatVars, streamVars>>

DispatchSetView ==
    \E zoom \in Zooms :
        LET out == set_view(cs.h, cs.s, CHOOSE c \in Centers : TRUE, zoom, Str(S_3d)) IN
        Dispatched("ng_set_view", out.h, cs.s, out.raised, 0)

DispatchSetLut ==
    LET out == set_lut(cs.h, cs.s, <<"L">>, Float(0), Float(5)) IN
    Dispatched("ng_set_lut", out.h, cs.s, out.raised, 0)

\* a layer_type outside the three allowed ones is refused when AddLayer is
\* built, and by add_layer
DispatchAddLayer ==
    \E type \in LayerTypes :
        LET out == add_layer(cs.h, cs.s, <<"M">>, type, Null,
                             << <<K_visible, Bool(TRUE)>> >>) IN
        Dispatched("ng_add_layer", out.h, cs.s, out.raised, 0)

DispatchSetLayerVisibility ==
    LET out == set_layer_visibility(cs.h, cs.s, <<"L">>, Bool(FALSE)) IN
    Dispatched("ng_set_layer_visibility", out.h, cs.s, out.raised, 0)

DispatchAnnotationsAdd ==
    \E name \in LayerNames, type \in {S_point, S_box}, size \in {Rows[1].size, Null} :
        LET out == t_add_annotations(cs.h, cs.s, name,
                       <<[type |-> type, center |-> Rows[1].center, size |-> size]>>) IN
        Dispatched("ng_annotations_add", out.h, cs.s, out.raised, 0)

DispatchStateLoad ==
    \E link \in LoadLinks :
        LET out == StateLoad(cs.h, cs.s, link) IN
        Dispatched("state_load", out.h, out.d, out.error, 0)

\* "No rows processed" is the result when no row went through, and then
\* CURRENT_STATE is the object it was
DispatchViewsTable ==
    \E rows \in RowLists :
        LET out == t_data_ng_views_table(cs.h, cs.s, rows) IN
        Dispatched("data_ng_views_table", out.h, out.d, out.d = cs.s, 0)

DispatchAnnotationsFromData ==
    \E name \in LayerNames, rows \in RowLists, color \in Colors :
        LET out == t_data_ng_annotations_from_data(cs.h, cs.s, name, S_point, color,
                                                   rows) IN
        Dispatched("data_ng_annotations_from_data", out.h, cs.s, out.error, 0)

DispatchQueryPolars ==
    \E rows \in LinkRowLists :
        LET out == _generate_ng_links_for_rows(cs.h, cs.s, rows) IN
        Dispatched("data_query_polars", out.h, cs.s, FALSE,
                   Len(SelectSeq(out.links, IsLink)))

\* a name without a branch gets {"error": "Unknown tool ..."}
DispatchOther ==
    \E name \in OtherNames :
        Dispatched(name, cs.h, cs.s, name \notin DispatchedNames, 0)

NextDispatch ==
    \/ DispatchSetView
    \/ DispatchSetLut
    \/ DispatchAddLayer
    \/ DispatchSetLayerVisibility
    \/ DispatchAnnotationsAdd
    \/ DispatchStateLoad
    \/ DispatchViewsTable
    \/ DispatchAnnotationsFromData
    \/ DispatchQueryPolars
    \/ DispatchOther

SpecDispatch == InitDispatch /\ [][NextDispatch]_vars


\* C28: a tool call whose result is an error result leaves CURRENT_STATE
\* exactly as it was before the call: no new layer, no changed colour
C28_ErrorLeavesState ==
    [][ (pc' = "dispatch" /\ cu'.error) => StateAt(cs', "s") = StateAt(cs, "s") ]_vars

\* C29: no name of TOOLS or of MUTATING_TOOLS gets the "Unknown tool"
\* result, and a call that sets mutated is a call the dispatcher ran
C29_EveryNameDispatched ==
    (pc = "dispatch" /\ cu.n > 0) =>
        /\ cu.name \in TOOLS \cup MUTATING_TOOLS => ~cu.unknown
        /\ is_mutating_tool(cu.name) => ~cu.unknown

\* C30: while mutated is false, CURRENT_STATE is the state the request
\* started with
C30_NotMutatedSameState ==
    (pc = "dispatch" /\ ~cu.mutated) => StateAt(cs, "s") = cu.start

\* data_query_polars has made a link for a row after an earlier call that
\* does not mutate, mutated is false and the state is the one at the start
C30_Witness ==
    /\ pc = "dispatch" /\ cu.n = 2
    /\ cu.name = "data_query_polars" /\ cu.links > 0
    /\ ~cu.mutated
    /\ StateAt(cs, "s") = cu.start

====
